---- MODULE Spec2Model ----
(***************************************************************************)
(* stm32f3-oscilloscope: the foreground sweep loop of src/main.rs, the     *)
(* SysTick handler with its debounced pushbuttons, the DMA1 channel 1      *)
(* transfer-complete handler, and the capture pipeline of src/capture.rs   *)
(* (TIM15 -> ADC1 -> DMA1 channel 1 -> CAPTURE_CHANNEL_1).                  *)
(*                                                                         *)
(* Execution contexts: the foreground loop (one action per step between    *)
(* two accesses to state shared with a handler or with the hardware), the  *)
(* SysTick handler (atomic: nothing it touches is touched by the only      *)
(* handler that can preempt it), the DMA handler (atomic, highest          *)
(* priority), and the hardware itself (pin levels, conversions, DMA).      *)
(***************************************************************************)
EXTENDS Integers, Sequences, FiniteSets, TLC

(***************************************************************************)
(* Bounds of the model.  The code's literal sweep width is 160 samples and *)
(* its debounce hold-off is 100 ticks; the model is explored with both     *)
(* scaled down, every definition being written in terms of them.           *)
(***************************************************************************)
\* samples per sweep: the DMA transfer length, the size of
\* CAPTURE_CHANNEL_1 and of previous_y (160 in the code)
SweepLen == 3
\* SysTick invocations a button is locked out for after a change (100 in the code)
DebounceTicks == 2
\* pin-level changes the environment makes in one behaviour
MaxPinEvents == 2
\* the longest delay delay_ms is asked for (50 in the code)
MaxDelay == 3
\* set_timebase and siggen_set_freq are called with every argument up to this
\* one, and with the larger arguments of LargeArgs
MaxSmallArg == 4000

\* the HSERDY polls set_sys_clock makes before it gives up (0x500 in the code)
HseStartupCount == 3

\* raw ADC conversions the environment delivers (12-bit, right aligned)
SampleValues == {0, 4095}

(***************************************************************************)
(* Program constants                                                       *)
(***************************************************************************)
BUTTONS == 4
Buttons == 0 .. (BUTTONS - 1)

SIGGEN_FREQUENCIES ==
    << [frequency |->     1, label |-> "1Hz"],
       [frequency |->     3, label |-> "3Hz"],
       [frequency |->    10, label |-> "10Hz"],
       [frequency |->    33, label |-> "33Hz"],
       [frequency |->   100, label |-> "100Hz"],
       [frequency |->   333, label |-> "333Hz"],
       [frequency |->  1000, label |-> "1kHz"],
       [frequency |->  3333, label |-> "3.3kHz"],
       [frequency |-> 10000, label |-> "10kHz"] >>

TIMEBASE_INTERVALS ==
    << [sample_rate |->       1, label |-> "32s"],
       [sample_rate |->      32, label |-> "1s"],
       [sample_rate |->      64, label |-> ".5s"],
       [sample_rate |->     160, label |-> ".2s"],
       [sample_rate |->     320, label |-> ".1s"],
       [sample_rate |->     640, label |-> "50ms"],
       [sample_rate |->    1600, label |-> "20ms"],
       [sample_rate |->    3200, label |-> "10ms"],
       [sample_rate |->    6400, label |-> "5ms"],
       [sample_rate |->   16000, label |-> "2ms"],
       [sample_rate |->   32000, label |-> "1ms"],
       [sample_rate |->   64000, label |-> ".5ms"],
       [sample_rate |->  160000, label |-> ".2ms"],
       [sample_rate |->  320000, label |-> ".1ms"],
       [sample_rate |->  640000, label |-> "~50us"],
       [sample_rate |-> 1600000, label |-> "20us"],
       [sample_rate |-> 3130434, label |-> "~10us"] >>

\* St7735Color (RGB565)
Black == 0
Blue  == 31
Green == 2016
Red   == 63488
White == 65535

\* the previous_y entry of a column nothing was plotted in yet
Unplotted == 255

\* the first row and the height of the status line (clear_status_line)
StatusRow    == 116
StatusHeight == 12

U16 == 2^16

VARIABLES
    \* ---- locals of main ----
    state,              \* SweepState: "Before", "During", "After"
    x_out,              \* samples of this sweep plotted so far
    previous_y,         \* [column -> row plotted there, or Unplotted]
    timebase_index,     \* 0-based index into TIMEBASE_INTERVALS
    siggen_freq_index,  \* 0-based index into SIGGEN_FREQUENCIES
    pc,                 \* the foreground's position in the loop body
    \* ---- statics ----
    BUTTON_CHANGED, BUTTON_STATE, BUTTON_DEBOUNCE,
    TIMING_DELAY,
    CAPTURE_CHANNEL_1,
    \* ---- peripherals ----
    pin,                \* GPIOD IDR bits 12..15 (TRUE = high = button released)
    dma_en,             \* DMA1 CCR1.EN
    ndt,                \* DMA1 CNDTR1
    tcif,               \* DMA1 ISR.TCIF1 (the Dma1Ch1 interrupt is pending)
    adstart,            \* ADC1 CR.ADSTART
    ovr,                \* ADC1 ISR.OVR
    tim15,              \* TIM15 [arr (u32), psc, cnt] as last written
    tim2_arr,           \* TIM2 ARR (u32) as last written
    led,                \* GPIOE ODR bits of LD3, LD4, LD5
    lcd,                \* the pixels that are not Black: [<<x, y>> -> colour]
    status_line,        \* the strings printed on the status line since it was cleared
    ovr_reported,       \* what check_adc_ovr_flag returned in the last After step
    adc_in,             \* the raw value a conversion of the input on PC1 gives
    arg,                \* the argument of the call that is followed on its own
                        \* (set_timebase, siggen_set_freq, delay_ms), else 0
    \* ---- history ----
    presses,            \* [button -> false->true transitions SysTick recognised]
    advances,           \* [button -> advances of the index the button selects]
    ticks,              \* SysTick invocations since delay_ms stored its argument
                        \* (counted up to MaxDelay + 1)
    plotted,            \* the columns plotted since the last begin_sweep
    captured,           \* the buffer slots the DMA wrote since the last begin_sweep
    pin_budget,         \* pin-level changes the environment may still make
    \* ---- start-up ----
    startup_count,      \* set_sys_clock's countdown of HSERDY polls (0 outside it)
    handshake           \* [flag -> "ready", "pending" (it will be) or "never"]

fg_vars  == << state, x_out, previous_y, timebase_index, siggen_freq_index, pc >>
btn_vars == << BUTTON_CHANGED, BUTTON_STATE, BUTTON_DEBOUNCE >>
dma_vars == << dma_en, ndt, tcif, CAPTURE_CHANNEL_1 >>
adc_vars == << adstart, ovr >>
tim_vars == << tim15, tim2_arr >>
out_vars == << led, lcd, status_line, ovr_reported >>
env_vars == << pin, pin_budget, adc_in, arg >>
hist_vars == << presses, advances, ticks, plotted, captured >>
setup_vars == << startup_count, handshake >>

vars == << state, x_out, previous_y, timebase_index, siggen_freq_index, pc,
           BUTTON_CHANGED, BUTTON_STATE, BUTTON_DEBOUNCE, TIMING_DELAY,
           CAPTURE_CHANNEL_1, pin, dma_en, ndt, tcif, adstart, ovr, tim15,
           tim2_arr, led, lcd, status_line, ovr_reported, adc_in, arg, presses,
           advances, ticks, plotted, captured, pin_budget, startup_count,
           handshake >>

\* the status flags the start-up code waits for: RCC CR.HSERDY, RCC CR.PLLRDY,
\* RCC CFGR.SWS = 0b10, ADC1 CR.ADCAL = 0, ADC1 ISR.ADRDY
Handshakes == {"HSERDY", "PLLRDY", "SWS", "ADCAL", "ADRDY"}

Columns == 0 .. (SweepLen - 1)


(***************************************************************************)
(* Arithmetic of the code's integer types                                  *)
(***************************************************************************)
\* a value reinterpreted as i16 (the `as i16` casts of main)
AsI16(v) == IF v % U16 >= 32768 THEN (v % U16) - U16 ELSE v % U16

\* A u32 is held as its two 16-bit halves, [hi, lo]: the model checker's
\* integers are 32-bit signed, and a wrapped u32 does not fit in them.
ToU32(n) == [hi |-> (n \div U16) % U16, lo |-> n % U16]

\* a - 1 in u32 arithmetic, wrapping (a release build), for 0 <= a < 2^31
WrappingDec(a) == IF a = 0 THEN [hi |-> U16 - 1, lo |-> U16 - 1] ELSE ToU32(a - 1)

\* a <= b, both u32
LeqU32(a, b) == a.hi < b.hi \/ (a.hi = b.hi /\ a.lo <= b.lo)

\* core::cmp::max on u32
MaxU32(a, b) == IF LeqU32(a, b) THEN b ELSE a

(***************************************************************************)
(* capture::set_timebase and siggen_set_freq: the register values          *)
(***************************************************************************)
\* the threshold between the two regimes taken 98 too low
set_timebase_LowThreshold(samples_per_second) ==
    IF samples_per_second > 999
    THEN [arr |-> WrappingDec(72000000 \div samples_per_second),
          psc |-> 0, cnt |-> 0]
    ELSE [arr |-> WrappingDec((72000000 \div 2250) \div samples_per_second),
          psc |-> 2249, cnt |-> 0]

\* TIM15 ARR (u32), PSC and CNT as set_timebase(samples_per_second) writes them
set_timebase(samples_per_second) ==
    IF samples_per_second > 1097
    THEN [arr |-> WrappingDec(72000000 \div samples_per_second),
          psc |-> 0, cnt |-> 0]
    ELSE [arr |-> WrappingDec((72000000 \div 2250) \div samples_per_second),
          psc |-> 2249, cnt |-> 0]

\* `- 1` on a quotient of 0: "attempt to subtract with overflow", a panic in a
\* build with overflow checks (debug), the wrap of WrappingDec in one without
set_timebase_overflows(samples_per_second) ==
    IF samples_per_second > 1097
    THEN 72000000 \div samples_per_second = 0
    ELSE (72000000 \div 2250) \div samples_per_second = 0

siggen_set_freq_overflows(freq) == (36000000 \div 144) \div freq = 0

\* TIM2 ARR (u32) as siggen_set_freq(freq) writes it
siggen_set_freq(freq) ==
    MaxU32(WrappingDec((36000000 \div 144) \div freq), ToU32(1))

(***************************************************************************)
(* The display surface: the pixels that are not Black                      *)
(***************************************************************************)
st7735_drawPixel(d, x, y, color) ==
    IF color = Black
    THEN [p \in (DOMAIN d) \ {<<x, y>>} |-> d[p]]
    ELSE [p \in (DOMAIN d) \cup {<<x, y>>} |->
             IF p = <<x, y>> THEN color ELSE d[p]]

st7735_fill_rect(d, x, y, w, h, color) ==
    LET inside(p) == /\ p[1] >= x /\ p[1] < x + w
                     /\ p[2] >= y /\ p[2] < y + h
    IN  IF color = Black
        THEN [p \in {q \in DOMAIN d : ~inside(q)} |-> d[p]]
        ELSE [p \in (DOMAIN d) \cup ((x .. (x + w - 1)) \X (y .. (y + h - 1))) |->
                 IF inside(p) THEN color ELSE d[p]]

clear_status_line(d) == st7735_fill_rect(d, 0, StatusRow, 160, StatusHeight, Black)

\* the graticule main paints before the loop
Graticule == [p \in {32, 64, 96, 128} \X {127 - 32, 127 - 64, 127 - 96} |-> Red]

(***************************************************************************)
(* The plotting step of SweepState::During, for column x                   *)
(***************************************************************************)
\* an erase that never restores the graticule colour
EraseColour_AlwaysBlack(x, y) == Black

\* the colour the old pixel of column x at row y is redrawn in
EraseColour(x, y) == IF x % 32 = 0 /\ y % 32 = 0 THEN Green ELSE Black

\* "erase old plot"
EraseOld(d, x, prev) ==
    IF AsI16(prev) < 255
    THEN st7735_drawPixel(d, AsI16(x), AsI16(prev), EraseColour(AsI16(x), AsI16(prev)))
    ELSE d

\* the row growing with the sample instead of falling
PixelRow_Inverted(raw_conversion) ==
    LET microvolts == raw_conversion * 806
    IN  AsI16(microvolts \div 25781)

\* the row of a raw conversion, before clamping
PixelRow(raw_conversion) ==
    LET microvolts == raw_conversion * 806    \* a u16 times 806 fits a u32
    IN  127 - AsI16(microvolts \div 25781)

\* the alert colour never used
PlotNew_AlwaysWhite(raw_conversion) ==
    LET y == PixelRow(raw_conversion)
    IN  IF y < 0 THEN [row |-> 0, color |-> White]
        ELSE IF y > 127 THEN [row |-> 127, color |-> White]
        ELSE [row |-> y % 256, color |-> White]

\* the row stored without the clamp: -1 cast to u8
PlotNew_NoClamp(raw_conversion) ==
    LET y == PixelRow(raw_conversion)
    IN  [row |-> y % 256, color |-> IF y < 0 \/ y > 127 THEN Red ELSE White]

\* "plot new value": the row recorded in previous_y and the colour drawn there
PlotNew(raw_conversion) ==
    LET y == PixelRow(raw_conversion)
    IN  IF y < 0 THEN [row |-> 0, color |-> Red]
        ELSE IF y > 127 THEN [row |-> 127, color |-> Red]
        ELSE [row |-> y % 256, color |-> White]

\* mutant: the comparison off by one (a sample not yet transferred is plotted)
SampleAvailable_Early(x_in, x) == x_in >= x

\* mutant: the comparison off by one the other way (the last sample is never plotted)
SampleAvailable_Late(x_in, x) == x_in > x + 1

\* "if x_in > x_out": a sample the display has not caught up with
SampleAvailable(x_in, x) == x_in > x

\* mutant: the cursor advanced twice
AdvanceCursor_Twice(x) == x + 2

\* "x_out += 1"
AdvanceCursor(x) == x + 1

\* mutant: the end of the sweep goes straight back to Before
AfterPlot_SkipAfter(x) == IF x >= SweepLen THEN "Before" ELSE "During"

\* mutant: the end-of-sweep test off by one
AfterPlot_Late(x) == IF x > SweepLen THEN "After" ELSE "During"

\* the end of the sweep declared one column early
AfterPlot_Early(x) == IF x >= SweepLen - 1 THEN "After" ELSE "During"

\* "end of sweep?": the sweep state after the plotting step has advanced
\* x_out to x
AfterPlot(x) == IF x >= SweepLen THEN "After" ELSE "During"

\* the remaining count taken for the transferred one
get_transferred_sample_count_Remaining == ndt

(***************************************************************************)
(* capture: the DMA channel registers                                      *)
(***************************************************************************)
get_transferred_sample_count == SweepLen - ndt

\* CCR1.EN and CNDTR1 as begin_sweep leaves them
\* a begin_sweep that does not enable the channel
begin_sweep_NotArmed == [en |-> dma_en, ndt |-> ndt]

\* a finish_sweep that does not rewrite the transfer length
finish_sweep_NoRewind == [en |-> FALSE, ndt |-> ndt]

begin_sweep == [en |-> TRUE, ndt |-> ndt]

\* mutant: the channel left enabled
finish_sweep_StillArmed == [en |-> dma_en, ndt |-> SweepLen]

\* CCR1.EN and CNDTR1 as finish_sweep leaves them
finish_sweep == [en |-> FALSE, ndt |-> SweepLen]

(***************************************************************************)
(* State at the entry of the main loop: the statics as initialised, the    *)
(* peripherals as capture::setup, siggen_setup and the two set_*_from_index *)
(* calls before the loop leave them, the buttons released, a steady level  *)
(* on the analog input.                                                    *)
(***************************************************************************)
Init ==
    /\ state = "Before"
    /\ x_out = 0
    /\ previous_y = [c \in Columns |-> Unplotted]
    /\ siggen_freq_index = 6
    /\ timebase_index = Len(TIMEBASE_INTERVALS) \div 2
    /\ pc = "match"
    /\ BUTTON_CHANGED = [i \in Buttons |-> FALSE]
    /\ BUTTON_STATE = [i \in Buttons |-> FALSE]
    /\ BUTTON_DEBOUNCE = [i \in Buttons |-> 0]
    /\ TIMING_DELAY = 0
    /\ CAPTURE_CHANNEL_1 = [c \in Columns |-> 0]
    /\ pin = [i \in Buttons |-> TRUE]
    /\ dma_en = FALSE
    /\ ndt = SweepLen
    /\ tcif = FALSE
    /\ adstart = FALSE
    /\ ovr = FALSE
    /\ tim15 = set_timebase(TIMEBASE_INTERVALS[(Len(TIMEBASE_INTERVALS) \div 2) + 1].sample_rate)
    /\ tim2_arr = siggen_set_freq(SIGGEN_FREQUENCIES[6 + 1].frequency)
    /\ led = [LD3 |-> FALSE, LD4 |-> TRUE, LD5 |-> FALSE]
    /\ lcd = clear_status_line(Graticule)
    /\ status_line = << TIMEBASE_INTERVALS[(Len(TIMEBASE_INTERVALS) \div 2) + 1].label, "/div" >>
    /\ ovr_reported = FALSE
    /\ adc_in \in SampleValues
    /\ arg = 0
    /\ ticks = 0
    /\ plotted = {}
    /\ captured = {}
    /\ presses = [i \in Buttons |-> 0]
    /\ advances = [i \in Buttons |-> 0]
    /\ pin_budget = MaxPinEvents
    /\ startup_count = 0
    /\ handshake = [h \in Handshakes |-> "ready"]

(***************************************************************************)
(* A later state of the same program, at the top of the loop: the left     *)
(* button has been pressed and released 8 times and the right one twice,   *)
(* every press consumed (the left one last), so both indices stand at the  *)
(* last entry of their table; the sweep armed by the first iteration has   *)
(* not transferred a sample yet.                                           *)
(***************************************************************************)
InitWrap ==
    /\ state = "During"
    /\ x_out = 0
    /\ previous_y = [c \in Columns |-> Unplotted]
    /\ siggen_freq_index = Len(SIGGEN_FREQUENCIES) - 1
    /\ timebase_index = Len(TIMEBASE_INTERVALS) - 1
    /\ pc = "match"
    /\ BUTTON_CHANGED = [i \in Buttons |-> FALSE]
    /\ BUTTON_STATE = [i \in Buttons |-> FALSE]
    /\ BUTTON_DEBOUNCE = [i \in Buttons |-> 0]
    /\ TIMING_DELAY = 0
    /\ CAPTURE_CHANNEL_1 = [c \in Columns |-> 0]
    /\ pin = [i \in Buttons |-> TRUE]
    /\ dma_en = TRUE
    /\ ndt = SweepLen
    /\ tcif = FALSE
    /\ adstart = TRUE
    /\ ovr = FALSE
    /\ tim15 = set_timebase(TIMEBASE_INTERVALS[Len(TIMEBASE_INTERVALS)].sample_rate)
    /\ tim2_arr = siggen_set_freq(SIGGEN_FREQUENCIES[Len(SIGGEN_FREQUENCIES)].frequency)
    /\ led = [LD3 |-> TRUE, LD4 |-> TRUE, LD5 |-> FALSE]
    /\ lcd = clear_status_line(Graticule)
    /\ status_line = << TIMEBASE_INTERVALS[Len(TIMEBASE_INTERVALS)].label, "/div" >>
    /\ ovr_reported = FALSE
    /\ adc_in \in SampleValues
    /\ arg = 0
    /\ ticks = 0
    /\ plotted = {}
    /\ captured = {}
    /\ presses = [i \in Buttons |->
                    IF i = 0 THEN (Len(TIMEBASE_INTERVALS) - 1) - (Len(TIMEBASE_INTERVALS) \div 2)
                    ELSE IF i = 3 THEN (Len(SIGGEN_FREQUENCIES) - 1) - 6
                    ELSE 0]
    /\ advances = presses
    /\ pin_budget = MaxPinEvents
    /\ startup_count = 0
    /\ handshake = [h \in Handshakes |-> "ready"]

(***************************************************************************)
(* Another later state, at the top of the loop: the left button was        *)
(* pressed once, the press was consumed (the timebase index advanced       *)
(* once), the debounce countdown has run out, and the button is still held *)
(* down; the sweep armed by the first iteration has not transferred a      *)
(* sample yet.                                                             *)
(***************************************************************************)
InitHeld ==
    /\ state = "During"
    /\ x_out = 0
    /\ previous_y = [c \in Columns |-> Unplotted]
    /\ siggen_freq_index = 6
    /\ timebase_index = (Len(TIMEBASE_INTERVALS) \div 2) + 1
    /\ pc = "match"
    /\ BUTTON_CHANGED = [i \in Buttons |-> FALSE]
    /\ BUTTON_STATE = [i \in Buttons |-> i = 0]
    /\ BUTTON_DEBOUNCE = [i \in Buttons |-> 0]
    /\ TIMING_DELAY = 0
    /\ CAPTURE_CHANNEL_1 = [c \in Columns |-> 0]
    /\ pin = [i \in Buttons |-> i /= 0]
    /\ dma_en = TRUE
    /\ ndt = SweepLen
    /\ tcif = FALSE
    /\ adstart = TRUE
    /\ ovr = FALSE
    /\ tim15 = set_timebase(TIMEBASE_INTERVALS[(Len(TIMEBASE_INTERVALS) \div 2) + 2].sample_rate)
    /\ tim2_arr = siggen_set_freq(SIGGEN_FREQUENCIES[6 + 1].frequency)
    /\ led = [LD3 |-> TRUE, LD4 |-> TRUE, LD5 |-> FALSE]
    /\ lcd = clear_status_line(Graticule)
    /\ status_line = << TIMEBASE_INTERVALS[(Len(TIMEBASE_INTERVALS) \div 2) + 2].label, "/div" >>
    /\ ovr_reported = FALSE
    /\ adc_in \in SampleValues
    /\ arg = 0
    /\ ticks = 0
    /\ plotted = {}
    /\ captured = {}
    /\ presses = [i \in Buttons |-> IF i = 0 THEN 1 ELSE 0]
    /\ advances = presses
    /\ pin_budget = MaxPinEvents
    /\ startup_count = 0
    /\ handshake = [h \in Handshakes |-> "ready"]

\* a check that reports the flag and leaves it set
check_adc_ovr_flag_NoClear == [ret |-> ovr, ovr |-> ovr]

\* capture::check_adc_ovr_flag: what it returns, and ADC1 ISR.OVR after it
check_adc_ovr_flag == [ret |-> ovr, ovr |-> IF ovr THEN FALSE ELSE ovr]

(***************************************************************************)
(* Interrupt priorities: Dma1Ch1 has the highest priority (0) and SysTick  *)
(* the lowest, so while the DMA interrupt is pending its handler is the    *)
(* next software step to run: neither the foreground nor SysTick moves.    *)
(***************************************************************************)
Dma1Ch1Pending == tcif

(***************************************************************************)
(* The environment: pushbutton pins                                        *)
(***************************************************************************)
\* the level of the pin of button i changes (a press, a release or a bounce)
PinChange(i) ==
    /\ pin_budget > 0
    /\ pin' = [pin EXCEPT ![i] = ~pin[i]]
    /\ pin_budget' = pin_budget - 1
    /\ UNCHANGED << fg_vars, btn_vars, TIMING_DELAY, dma_vars, adc_vars,
                    tim_vars, out_vars, adc_in, arg, hist_vars >>
    /\ UNCHANGED setup_vars

(***************************************************************************)
(* systick_handler                                                         *)
(***************************************************************************)
\* a reload that is one tick short
DebounceReload_Short == DebounceTicks - 1

\* the debounce countdown a recognised change reloads
DebounceReload == DebounceTicks

\* a handler that raises the flag whenever it samples a pressed button
TickButton_Level(i) ==
    IF BUTTON_DEBOUNCE[i] > 0
    THEN [changed  |-> BUTTON_CHANGED[i],
          state    |-> BUTTON_STATE[i],
          debounce |-> BUTTON_DEBOUNCE[i] - 1]
    ELSE LET read == ~pin[i]
         IN  [changed  |-> BUTTON_CHANGED[i] \/ read,
              state    |-> read,
              debounce |-> IF read /= BUTTON_STATE[i]
                           THEN DebounceTicks ELSE BUTTON_DEBOUNCE[i]]

\* a handler that samples the pin of the next button
TickButton_Neighbour(i) ==
    IF BUTTON_DEBOUNCE[i] > 0
    THEN [changed  |-> BUTTON_CHANGED[i],
          state    |-> BUTTON_STATE[i],
          debounce |-> BUTTON_DEBOUNCE[i] - 1]
    ELSE LET read == ~pin[(i + 1) % BUTTONS]
         IN  IF read /= BUTTON_STATE[i]
             THEN [changed  |-> TRUE,
                   state    |-> read,
                   debounce |-> DebounceTicks]
             ELSE [changed  |-> BUTTON_CHANGED[i],
                   state    |-> BUTTON_STATE[i],
                   debounce |-> BUTTON_DEBOUNCE[i]]

\* one pass of the handler's loop body for button i: the new BUTTON_CHANGED[i],
\* BUTTON_STATE[i] and BUTTON_DEBOUNCE[i]
TickButton(i) ==
    IF BUTTON_DEBOUNCE[i] > 0
    THEN [changed  |-> BUTTON_CHANGED[i],
          state    |-> BUTTON_STATE[i],
          debounce |-> BUTTON_DEBOUNCE[i] - 1]
    ELSE LET read == ~pin[i]    \* IDR bit clear: the button shorts to ground
         IN  IF read /= BUTTON_STATE[i]
             THEN [changed  |-> TRUE,
                   state    |-> read,
                   debounce |-> DebounceReload]
             ELSE [changed  |-> BUTTON_CHANGED[i],
                   state    |-> BUTTON_STATE[i],
                   debounce |-> BUTTON_DEBOUNCE[i]]

\* a handler that takes two milliseconds off the delay at a time
TickDelay_Double == IF TIMING_DELAY >= 2 THEN TIMING_DELAY - 2 ELSE 0

\* the handler's first statement: the new TIMING_DELAY
TickDelay == IF TIMING_DELAY /= 0 THEN TIMING_DELAY - 1 ELSE TIMING_DELAY

Tick ==
    /\ ~Dma1Ch1Pending
    /\ TIMING_DELAY' = TickDelay
    /\ ticks' = IF pc = "delay_wait" /\ ticks <= MaxDelay THEN ticks + 1 ELSE ticks
    /\ BUTTON_CHANGED'  = [i \in Buttons |-> TickButton(i).changed]
    /\ BUTTON_STATE'    = [i \in Buttons |-> TickButton(i).state]
    /\ BUTTON_DEBOUNCE' = [i \in Buttons |-> TickButton(i).debounce]
    /\ presses' = [i \in Buttons |->
                     IF ~BUTTON_STATE[i] /\ TickButton(i).state
                     THEN presses[i] + 1 ELSE presses[i]]
    /\ UNCHANGED << fg_vars, dma_vars, adc_vars, tim_vars, out_vars, env_vars,
                    advances, plotted, captured >>
    /\ UNCHANGED setup_vars

(***************************************************************************)
(* The capture hardware                                                    *)
(***************************************************************************)
\* TIM15 triggers a conversion and the armed DMA channel moves it to memory
DmaTransfer ==
    /\ adstart
    /\ dma_en
    /\ ndt > 0
    /\ CAPTURE_CHANNEL_1' = [CAPTURE_CHANNEL_1 EXCEPT ![SweepLen - ndt] = adc_in]
    /\ ndt' = ndt - 1
    /\ tcif' = IF ndt - 1 = 0 THEN TRUE ELSE tcif
    /\ captured' = captured \cup {SweepLen - ndt}
    /\ UNCHANGED << fg_vars, btn_vars, TIMING_DELAY, dma_en, adc_vars,
                    tim_vars, out_vars, env_vars, presses, advances, ticks,
                    plotted >>
    /\ UNCHANGED setup_vars

\* a conversion ends while the previous one is still unread in ADC1 DR
AdcOverrun ==
    /\ adstart
    /\ ~ovr
    /\ ovr' = TRUE
    /\ UNCHANGED << fg_vars, btn_vars, TIMING_DELAY, dma_vars, adstart,
                    tim_vars, out_vars, env_vars, hist_vars >>
    /\ UNCHANGED setup_vars

\* a handler that also rewrites the transfer length
Dma1Ch1_Rewinds ==
    /\ tcif
    /\ led' = [led EXCEPT !.LD3 = FALSE]
    /\ tcif' = FALSE
    /\ ndt' = SweepLen
    /\ UNCHANGED << fg_vars, btn_vars, TIMING_DELAY, dma_en, CAPTURE_CHANNEL_1,
                    adc_vars, tim_vars, lcd, status_line, ovr_reported,
                    env_vars, hist_vars >>
    /\ UNCHANGED setup_vars

(***************************************************************************)
(* dma1ch1_interrupt_handler                                               *)
(***************************************************************************)
Dma1Ch1 ==
    /\ tcif
    /\ led' = [led EXCEPT !.LD3 = FALSE]
    /\ tcif' = FALSE
    /\ UNCHANGED << fg_vars, btn_vars, TIMING_DELAY, dma_en, ndt, CAPTURE_CHANNEL_1,
                    adc_vars, tim_vars, lcd, status_line, ovr_reported,
                    env_vars, hist_vars >>
    /\ UNCHANGED setup_vars


(***************************************************************************)
(* The main loop: the match on the sweep state                             *)
(***************************************************************************)
\* a loop whose match arms go straight back to the match
ButtonChecks_Skipped == "match"

\* where every arm of the match continues: the button checks that follow it
ButtonChecks == "button0"

\* SweepState::Before, capture::begin_sweep (one critical section)
BeforeBeginSweep ==
    /\ ~Dma1Ch1Pending
    /\ pc = "match"
    /\ state = "Before"
    /\ dma_en' = begin_sweep.en
    /\ ndt' = begin_sweep.ndt
    /\ adstart' = TRUE
    /\ plotted' = {}
    /\ captured' = {}
    /\ pc' = "led_on"
    /\ UNCHANGED << state, x_out, previous_y, timebase_index, siggen_freq_index,
                    btn_vars, TIMING_DELAY, tcif, CAPTURE_CHANNEL_1, ovr,
                    tim_vars, out_vars, env_vars, presses, advances, ticks >>
    /\ UNCHANGED setup_vars

\* SweepState::Before, from led_on(LD3) to the end of the arm
BeforeLedOn ==
    /\ ~Dma1Ch1Pending
    /\ pc = "led_on"
    /\ led' = [led EXCEPT !.LD3 = TRUE]
    /\ state' = "During"
    /\ x_out' = 0
    /\ pc' = ButtonChecks
    /\ UNCHANGED << previous_y, timebase_index, siggen_freq_index,
                    btn_vars, TIMING_DELAY, dma_vars, adc_vars, tim_vars,
                    lcd, status_line, ovr_reported, env_vars, hist_vars >>
    /\ UNCHANGED setup_vars

\* SweepState::During
During ==
    /\ ~Dma1Ch1Pending
    /\ pc = "match"
    /\ state = "During"
    /\ LET x_in == get_transferred_sample_count
       IN  IF SampleAvailable(x_in, x_out)
           THEN LET new == PlotNew(CAPTURE_CHANNEL_1[x_out])
                    erased == EraseOld(lcd, x_out, previous_y[x_out])
                IN  /\ lcd' = st7735_drawPixel(erased, AsI16(x_out), new.row, new.color)
                    /\ previous_y' = [previous_y EXCEPT ![x_out] = new.row]
                    /\ x_out' = AdvanceCursor(x_out)
                    /\ state' = AfterPlot(AdvanceCursor(x_out))
                    /\ plotted' = plotted \cup {x_out}
           ELSE UNCHANGED << lcd, previous_y, x_out, state, plotted >>
    /\ pc' = ButtonChecks
    /\ UNCHANGED << timebase_index, siggen_freq_index, btn_vars, TIMING_DELAY,
                    dma_vars, adc_vars, tim_vars, led, status_line, ovr_reported,
                    env_vars, presses, advances, ticks, captured >>
    /\ UNCHANGED setup_vars

\* SweepState::After: capture::finish_sweep, capture::check_adc_ovr_flag,
\* led_toggle(LD5)
After ==
    /\ ~Dma1Ch1Pending
    /\ pc = "match"
    /\ state = "After"
    /\ dma_en' = finish_sweep.en
    /\ ndt' = finish_sweep.ndt
    /\ ovr_reported' = check_adc_ovr_flag.ret
    /\ ovr' = check_adc_ovr_flag.ovr
    /\ led' = [led EXCEPT !.LD5 = ~led.LD5]
    /\ state' = "Before"
    /\ pc' = ButtonChecks
    /\ UNCHANGED << x_out, previous_y, timebase_index, siggen_freq_index,
                    btn_vars, TIMING_DELAY, tcif, CAPTURE_CHANNEL_1, adstart,
                    tim_vars, lcd, status_line, env_vars, hist_vars >>
    /\ UNCHANGED setup_vars

(***************************************************************************)
(* The main loop: the buttons                                              *)
(***************************************************************************)
\* an index that runs past the last entry
NextIndex_NoWrap(index, n) == index + 1

\* an index that stops at the last entry instead of wrapping
NextIndex_Saturating(index, n) == IF index + 1 >= n THEN index ELSE index + 1

\* the index after the one given, in a table of n entries
NextIndex(index, n) == (index + 1) % n

\* the bounds check of table[index]: the program panics when it fails
InBounds(index, table) == index \in 0 .. (Len(table) - 1)

\* button 1 (left): if button_get_changed(0)
Button0GetChanged ==
    /\ ~Dma1Ch1Pending
    /\ pc = "button0"
    /\ pc' = IF BUTTON_CHANGED[0] THEN "reset0" ELSE "button3"
    /\ UNCHANGED << state, x_out, previous_y, timebase_index, siggen_freq_index,
                    btn_vars, TIMING_DELAY, dma_vars, adc_vars, tim_vars,
                    out_vars, env_vars, hist_vars >>
    /\ UNCHANGED setup_vars

\* a reset that clears the flags of all four buttons
Button0ResetChanged_ClearsAll ==
    /\ ~Dma1Ch1Pending
    /\ pc = "reset0"
    /\ BUTTON_CHANGED' = [i \in Buttons |-> FALSE]
    /\ pc' = "state0"
    /\ UNCHANGED << state, x_out, previous_y, timebase_index, siggen_freq_index,
                    BUTTON_STATE, BUTTON_DEBOUNCE, TIMING_DELAY, dma_vars,
                    adc_vars, tim_vars, out_vars, env_vars, hist_vars >>
    /\ UNCHANGED setup_vars

\* button_reset_changed(0)
Button0ResetChanged ==
    /\ ~Dma1Ch1Pending
    /\ pc = "reset0"
    /\ BUTTON_CHANGED' = [BUTTON_CHANGED EXCEPT ![0] = FALSE]
    /\ pc' = "state0"
    /\ UNCHANGED << state, x_out, previous_y, timebase_index, siggen_freq_index,
                    BUTTON_STATE, BUTTON_DEBOUNCE, TIMING_DELAY, dma_vars,
                    adc_vars, tim_vars, out_vars, env_vars, hist_vars >>
    /\ UNCHANGED setup_vars

\* an advance of the index that leaves TIM15 as it was
Button0GetState_NoTimer ==
    /\ ~Dma1Ch1Pending
    /\ pc = "state0"
    /\ IF BUTTON_STATE[0]
       THEN LET i == NextIndex(timebase_index, Len(TIMEBASE_INTERVALS))
                t == TIMEBASE_INTERVALS[i + 1]
            IN  IF InBounds(i, TIMEBASE_INTERVALS)
                THEN /\ timebase_index' = i
                     /\ tim15' = tim15
                     /\ lcd' = clear_status_line(lcd)
                     /\ status_line' = << t.label, "/div" >>
                     /\ advances' = [advances EXCEPT ![0] = @ + 1]
                     /\ pc' = "button3"
                ELSE /\ timebase_index' = i
                     /\ pc' = "panic"
                     /\ UNCHANGED << tim15, lcd, status_line, advances >>
       ELSE /\ pc' = "button3"
            /\ UNCHANGED << timebase_index, tim15, lcd, status_line, advances >>
    /\ UNCHANGED << state, x_out, previous_y, siggen_freq_index, btn_vars,
                    TIMING_DELAY, dma_vars, adc_vars, tim2_arr, led,
                    ovr_reported, env_vars, presses, ticks, plotted, captured >>
    /\ UNCHANGED setup_vars

\* if button_get_state(0) { ... set_capture_timebase_from_index }
Button0GetState ==
    /\ ~Dma1Ch1Pending
    /\ pc = "state0"
    /\ IF BUTTON_STATE[0]
       THEN LET i == NextIndex(timebase_index, Len(TIMEBASE_INTERVALS))
                t == TIMEBASE_INTERVALS[i + 1]
            IN  IF InBounds(i, TIMEBASE_INTERVALS)
                THEN /\ timebase_index' = i
                     /\ tim15' = set_timebase(t.sample_rate)
                     /\ lcd' = clear_status_line(lcd)
                     /\ status_line' = << t.label, "/div" >>
                     /\ advances' = [advances EXCEPT ![0] = @ + 1]
                     /\ pc' = "button3"
                ELSE /\ timebase_index' = i
                     /\ pc' = "panic"
                     /\ UNCHANGED << tim15, lcd, status_line, advances >>
       ELSE /\ pc' = "button3"
            /\ UNCHANGED << timebase_index, tim15, lcd, status_line, advances >>
    /\ UNCHANGED << state, x_out, previous_y, siggen_freq_index, btn_vars,
                    TIMING_DELAY, dma_vars, adc_vars, tim2_arr, led,
                    ovr_reported, env_vars, presses, ticks, plotted, captured >>
    /\ UNCHANGED setup_vars

\* button 4 (right): if button_get_changed(3)
Button3GetChanged ==
    /\ ~Dma1Ch1Pending
    /\ pc = "button3"
    /\ pc' = IF BUTTON_CHANGED[3] THEN "reset3" ELSE "match"
    /\ UNCHANGED << state, x_out, previous_y, timebase_index, siggen_freq_index,
                    btn_vars, TIMING_DELAY, dma_vars, adc_vars, tim_vars,
                    out_vars, env_vars, hist_vars >>
    /\ UNCHANGED setup_vars

\* button_reset_changed(3)
Button3ResetChanged ==
    /\ ~Dma1Ch1Pending
    /\ pc = "reset3"
    /\ BUTTON_CHANGED' = [BUTTON_CHANGED EXCEPT ![3] = FALSE]
    /\ pc' = "state3"
    /\ UNCHANGED << state, x_out, previous_y, timebase_index, siggen_freq_index,
                    BUTTON_STATE, BUTTON_DEBOUNCE, TIMING_DELAY, dma_vars,
                    adc_vars, tim_vars, out_vars, env_vars, hist_vars >>
    /\ UNCHANGED setup_vars

\* if button_get_state(3) { ... set_siggen_freq_from_index }
Button3GetState ==
    /\ ~Dma1Ch1Pending
    /\ pc = "state3"
    /\ IF BUTTON_STATE[3]
       THEN LET i == NextIndex(siggen_freq_index, Len(SIGGEN_FREQUENCIES))
                f == SIGGEN_FREQUENCIES[i + 1]
            IN  IF InBounds(i, SIGGEN_FREQUENCIES)
                THEN /\ siggen_freq_index' = i
                     /\ tim2_arr' = siggen_set_freq(f.frequency)
                     /\ lcd' = clear_status_line(lcd)
                     /\ status_line' = << "siggen freq:", f.label >>
                     /\ advances' = [advances EXCEPT ![3] = @ + 1]
                     /\ pc' = "match"
                ELSE /\ siggen_freq_index' = i
                     /\ pc' = "panic"
                     /\ UNCHANGED << tim2_arr, lcd, status_line, advances >>
       ELSE /\ pc' = "match"
            /\ UNCHANGED << siggen_freq_index, tim2_arr, lcd, status_line, advances >>
    /\ UNCHANGED << state, x_out, previous_y, timebase_index, btn_vars,
                    TIMING_DELAY, dma_vars, adc_vars, tim15, led,
                    ovr_reported, env_vars, presses, ticks, plotted, captured >>
    /\ UNCHANGED setup_vars

\* one step of the foreground loop
Foreground ==
    \/ BeforeBeginSweep \/ BeforeLedOn \/ During \/ After
    \/ Button0GetChanged \/ Button0ResetChanged \/ Button0GetState
    \/ Button3GetChanged \/ Button3ResetChanged \/ Button3GetState

Next ==
    \/ BeforeBeginSweep
    \/ BeforeLedOn
    \/ During
    \/ After
    \/ Button0GetChanged
    \/ Button0ResetChanged
    \/ Button0GetState
    \/ Button3GetChanged
    \/ Button3ResetChanged
    \/ Button3GetState
    \/ Tick
    \/ Dma1Ch1
    \/ DmaTransfer
    \/ \E i \in Buttons : PinChange(i)

Spec == Init /\ [][Next]_vars

\* the same program, followed from the state where both indices are about to wrap
SpecWrap == InitWrap /\ [][Next]_vars

\* the same program, followed from the state where the left button is held down
SpecHeld == InitHeld /\ [][Next]_vars

\* the same program with conversions that can overrun
NextOvr == Next \/ AdcOverrun

SpecOvr == Init /\ [][NextOvr]_vars

(***************************************************************************)
(* capture::set_timebase and siggen_set_freq called on their own, with     *)
(* arguments beyond the entries of the two tables, in the state the        *)
(* program is in at the top of its loop.                                   *)
(***************************************************************************)
\* arguments around the limits of the two functions, and the table entries
LargeArgs ==
    { 6400, 10000, 16000, 32000, 32001, 64000, 124999, 125000, 125001,
      160000, 249999, 250000, 250001, 320000, 640000, 1600000, 3130434,
      36000000, 71999999, 72000000, 72000001, 2147483647 }

CallArgs == (1 .. MaxSmallArg) \cup LargeArgs

InitCalls ==
    /\ state = "Before"
    /\ x_out = 0
    /\ previous_y = [c \in Columns |-> Unplotted]
    /\ siggen_freq_index = 6
    /\ timebase_index = Len(TIMEBASE_INTERVALS) \div 2
    /\ pc = "set_timebase"
    /\ BUTTON_CHANGED = [i \in Buttons |-> FALSE]
    /\ BUTTON_STATE = [i \in Buttons |-> FALSE]
    /\ BUTTON_DEBOUNCE = [i \in Buttons |-> 0]
    /\ TIMING_DELAY = 0
    /\ CAPTURE_CHANNEL_1 = [c \in Columns |-> 0]
    /\ pin = [i \in Buttons |-> TRUE]
    /\ dma_en = FALSE
    /\ ndt = SweepLen
    /\ tcif = FALSE
    /\ adstart = FALSE
    /\ ovr = FALSE
    /\ tim15 = set_timebase(TIMEBASE_INTERVALS[(Len(TIMEBASE_INTERVALS) \div 2) + 1].sample_rate)
    /\ tim2_arr = siggen_set_freq(SIGGEN_FREQUENCIES[6 + 1].frequency)
    /\ led = [LD3 |-> FALSE, LD4 |-> TRUE, LD5 |-> FALSE]
    /\ lcd = clear_status_line(Graticule)
    /\ status_line = << TIMEBASE_INTERVALS[(Len(TIMEBASE_INTERVALS) \div 2) + 1].label, "/div" >>
    /\ ovr_reported = FALSE
    /\ adc_in \in {0}
    /\ arg \in CallArgs
    /\ ticks = 0
    /\ plotted = {}
    /\ captured = {}
    /\ presses = [i \in Buttons |-> 0]
    /\ advances = [i \in Buttons |-> 0]
    /\ pin_budget = MaxPinEvents
    /\ startup_count = 0
    /\ handshake = [h \in Handshakes |-> "ready"]

\* capture::set_timebase(arg)
CallSetTimebase ==
    /\ pc = "set_timebase"
    /\ \/ /\ tim15' = set_timebase(arg)
          /\ pc' = "siggen_set_freq"
       \/ /\ set_timebase_overflows(arg)
          /\ pc' = "panic"
          /\ UNCHANGED tim15
    /\ UNCHANGED << state, x_out, previous_y, timebase_index, siggen_freq_index,
                    btn_vars, TIMING_DELAY, dma_vars, adc_vars, tim2_arr,
                    out_vars, env_vars, hist_vars >>
    /\ UNCHANGED setup_vars

\* siggen_set_freq(arg)
CallSiggenSetFreq ==
    /\ pc = "siggen_set_freq"
    /\ \/ /\ tim2_arr' = siggen_set_freq(arg)
          /\ pc' = "returned"
       \/ /\ siggen_set_freq_overflows(arg)
          /\ pc' = "panic"
          /\ UNCHANGED tim2_arr
    /\ UNCHANGED << state, x_out, previous_y, timebase_index, siggen_freq_index,
                    btn_vars, TIMING_DELAY, dma_vars, adc_vars, tim15,
                    out_vars, env_vars, hist_vars >>
    /\ UNCHANGED setup_vars

NextCalls == CallSetTimebase \/ CallSiggenSetFreq

SpecCalls == InitCalls /\ [][NextCalls]_vars

(***************************************************************************)
(* delay_ms: the call main makes before it initialises the display.  The   *)
(* SysTick counter runs and the button pins are inputs; nothing has been   *)
(* drawn, no LED is lit, and TIM15, TIM2, ADC1 and DMA1 are as the reset   *)
(* left them.                                                              *)
(***************************************************************************)
InitDelay ==
    /\ state = "Before"
    /\ x_out = 0
    /\ previous_y = [c \in Columns |-> Unplotted]
    /\ siggen_freq_index = 6
    /\ timebase_index = Len(TIMEBASE_INTERVALS) \div 2
    /\ pc = "delay_ms"
    /\ BUTTON_CHANGED = [i \in Buttons |-> FALSE]
    /\ BUTTON_STATE = [i \in Buttons |-> FALSE]
    /\ BUTTON_DEBOUNCE = [i \in Buttons |-> 0]
    /\ TIMING_DELAY = 0
    /\ CAPTURE_CHANNEL_1 = [c \in Columns |-> 0]
    /\ pin = [i \in Buttons |-> TRUE]
    /\ dma_en = FALSE
    /\ ndt = 0
    /\ tcif = FALSE
    /\ adstart = FALSE
    /\ ovr = FALSE
    /\ tim15 = [arr |-> [hi |-> 0, lo |-> U16 - 1], psc |-> 0, cnt |-> 0]
    /\ tim2_arr = [hi |-> U16 - 1, lo |-> U16 - 1]
    /\ led = [LD3 |-> FALSE, LD4 |-> FALSE, LD5 |-> FALSE]
    /\ lcd = << >>
    /\ status_line = << >>
    /\ ovr_reported = FALSE
    /\ adc_in \in {0}
    /\ arg \in 0 .. MaxDelay
    /\ ticks = 0
    /\ plotted = {}
    /\ captured = {}
    /\ presses = [i \in Buttons |-> 0]
    /\ advances = [i \in Buttons |-> 0]
    /\ pin_budget = MaxPinEvents
    /\ startup_count = 0
    /\ handshake = [h \in Handshakes |-> "ready"]

\* volatile_store(&mut TIMING_DELAY, ms)
DelayStore ==
    /\ pc = "delay_ms"
    /\ TIMING_DELAY' = arg
    /\ pc' = "delay_wait"
    /\ UNCHANGED << state, x_out, previous_y, timebase_index, siggen_freq_index,
                    btn_vars, dma_vars, adc_vars, tim_vars, out_vars, env_vars,
                    hist_vars >>
    /\ UNCHANGED setup_vars

\* while volatile_load(&TIMING_DELAY) != 0 {}: one evaluation of the condition
DelayPoll ==
    /\ pc = "delay_wait"
    /\ pc' = IF TIMING_DELAY /= 0 THEN "delay_wait" ELSE "delay_done"
    /\ UNCHANGED << state, x_out, previous_y, timebase_index, siggen_freq_index,
                    btn_vars, TIMING_DELAY, dma_vars, adc_vars, tim_vars,
                    out_vars, env_vars, hist_vars >>
    /\ UNCHANGED setup_vars

NextDelay ==
    \/ DelayStore
    \/ DelayPoll
    \/ Tick
    \/ \E i \in Buttons : PinChange(i)

\* delay_ms runs with interrupts enabled: SysTick keeps firing, and the
\* foreground keeps executing
FairSpecDelay ==
    /\ InitDelay
    /\ [][NextDelay]_vars
    /\ WF_vars(DelayStore \/ DelayPoll)
    /\ WF_vars(Tick)

(***************************************************************************)
(* The plotting step on every value the 12-bit ADC can deliver: the loop   *)
(* in SweepState::During with the whole sweep already transferred and the  *)
(* transfer-complete interrupt served, no button touched.                  *)
(***************************************************************************)
\* the conversions of a 12-bit, right-aligned ADC
RawSamples == 0 .. 4095

InitPlot ==
    /\ state = "During"
    /\ x_out = 0
    /\ previous_y = [c \in Columns |-> Unplotted]
    /\ siggen_freq_index = 6
    /\ timebase_index = Len(TIMEBASE_INTERVALS) \div 2
    /\ pc = "match"
    /\ BUTTON_CHANGED = [i \in Buttons |-> FALSE]
    /\ BUTTON_STATE = [i \in Buttons |-> FALSE]
    /\ BUTTON_DEBOUNCE = [i \in Buttons |-> 0]
    /\ TIMING_DELAY = 0
    /\ adc_in \in RawSamples
    /\ CAPTURE_CHANNEL_1 = [c \in Columns |-> adc_in]
    /\ pin = [i \in Buttons |-> TRUE]
    /\ dma_en = TRUE
    /\ ndt = 0
    /\ tcif = FALSE
    /\ adstart = TRUE
    /\ ovr = FALSE
    /\ tim15 = set_timebase(TIMEBASE_INTERVALS[(Len(TIMEBASE_INTERVALS) \div 2) + 1].sample_rate)
    /\ tim2_arr = siggen_set_freq(SIGGEN_FREQUENCIES[6 + 1].frequency)
    /\ led = [LD3 |-> FALSE, LD4 |-> TRUE, LD5 |-> FALSE]
    /\ lcd = clear_status_line(Graticule)
    /\ status_line = << TIMEBASE_INTERVALS[(Len(TIMEBASE_INTERVALS) \div 2) + 1].label, "/div" >>
    /\ ovr_reported = FALSE
    /\ arg = 0
    /\ ticks = 0
    /\ plotted = {}
    /\ captured = Columns
    /\ presses = [i \in Buttons |-> 0]
    /\ advances = [i \in Buttons |-> 0]
    /\ pin_budget = MaxPinEvents
    /\ startup_count = 0
    /\ handshake = [h \in Handshakes |-> "ready"]

NextPlot == During \/ Button0GetChanged \/ Button3GetChanged

SpecPlot == InitPlot /\ [][NextPlot]_vars

(***************************************************************************)
(* The loop over an input that changes from sweep to sweep, the buttons    *)
(* untouched                                                               *)
(***************************************************************************)
\* the voltage at the ADC1 input moves to another level
SignalChange ==
    /\ adc_in' \in SampleValues \ {adc_in}
    /\ UNCHANGED << fg_vars, btn_vars, TIMING_DELAY, dma_vars, adc_vars,
                    tim_vars, out_vars, pin, pin_budget, arg, hist_vars >>
    /\ UNCHANGED setup_vars

NextSignal ==
    \/ BeforeBeginSweep
    \/ BeforeLedOn
    \/ During
    \/ After
    \/ Button0GetChanged
    \/ Button3GetChanged
    \/ Dma1Ch1
    \/ DmaTransfer
    \/ SignalChange

SpecSignal == Init /\ [][NextSignal]_vars

\* the colour the display shows at p (Black where nothing is lit)
Pixel(d, p) == IF p \in DOMAIN d THEN d[p] ELSE Black

(***************************************************************************)
(* The plotting step at one column of the full-width display, sweep after  *)
(* sweep: the columns and the samples are chosen on and next to the        *)
(* graticule.                                                              *)
(***************************************************************************)
\* the columns of the display and of previous_y
ScreenColumns == 0 .. 159

\* a graticule column, its right neighbour and the left edge
ProbeColumns == {0, 32, 33}

\* raw conversions plotted in the rows 96, 95, 64 and 63
ProbeSamples == {1000, 1024, 2020, 2048}

InitErase ==
    /\ state = "During"
    /\ x_out \in ProbeColumns
    /\ previous_y = [c \in ScreenColumns |-> Unplotted]
    /\ siggen_freq_index = 6
    /\ timebase_index = Len(TIMEBASE_INTERVALS) \div 2
    /\ pc = "match"
    /\ BUTTON_CHANGED = [i \in Buttons |-> FALSE]
    /\ BUTTON_STATE = [i \in Buttons |-> FALSE]
    /\ BUTTON_DEBOUNCE = [i \in Buttons |-> 0]
    /\ TIMING_DELAY = 0
    /\ adc_in \in ProbeSamples
    /\ CAPTURE_CHANNEL_1 = [c \in ScreenColumns |-> adc_in]
    /\ pin = [i \in Buttons |-> TRUE]
    /\ dma_en = TRUE
    /\ ndt = 0
    /\ tcif = FALSE
    /\ adstart = TRUE
    /\ ovr = FALSE
    /\ tim15 = set_timebase(TIMEBASE_INTERVALS[(Len(TIMEBASE_INTERVALS) \div 2) + 1].sample_rate)
    /\ tim2_arr = siggen_set_freq(SIGGEN_FREQUENCIES[6 + 1].frequency)
    /\ led = [LD3 |-> FALSE, LD4 |-> TRUE, LD5 |-> FALSE]
    /\ lcd = clear_status_line(Graticule)
    /\ status_line = << TIMEBASE_INTERVALS[(Len(TIMEBASE_INTERVALS) \div 2) + 1].label, "/div" >>
    /\ ovr_reported = FALSE
    /\ arg = 0
    /\ ticks = 0
    /\ plotted = {}
    /\ captured = ScreenColumns
    /\ presses = [i \in Buttons |-> 0]
    /\ advances = [i \in Buttons |-> 0]
    /\ pin_budget = MaxPinEvents
    /\ startup_count = 0
    /\ handshake = [h \in Handshakes |-> "ready"]

\* "erase old plot" and "plot new value" at column x_out, then the sample the
\* next sweep will bring to this column
PlotColumn ==
    /\ pc = "match"
    /\ state = "During"
    /\ LET new == PlotNew(CAPTURE_CHANNEL_1[x_out])
           erased == EraseOld(lcd, x_out, previous_y[x_out])
       IN  /\ lcd' = st7735_drawPixel(erased, AsI16(x_out), new.row, new.color)
           /\ previous_y' = [previous_y EXCEPT ![x_out] = new.row]
    /\ \E s \in ProbeSamples :
          /\ adc_in' = s
          /\ CAPTURE_CHANNEL_1' = [c \in ScreenColumns |-> s]
    /\ UNCHANGED << state, x_out, timebase_index, siggen_freq_index, pc,
                    btn_vars, TIMING_DELAY, dma_en, ndt, tcif, adc_vars,
                    tim_vars, led, status_line, ovr_reported, pin, pin_budget,
                    arg, hist_vars, setup_vars >>

NextErase == PlotColumn

SpecErase == InitErase /\ [][NextErase]_vars

(***************************************************************************)
(* Start-up: main from reset to the loop. The waits of set_sys_clock and   *)
(* of capture::setup run with interrupts masked, one evaluation of the     *)
(* loop condition per step.                                                *)
(***************************************************************************)
\* out of reset; each flag the code will wait for either comes up in time
\* ("pending") or does not at all ("never")
InitSetup ==
    /\ state = "Before"
    /\ x_out = 0
    /\ previous_y = [c \in Columns |-> Unplotted]
    /\ siggen_freq_index = 6
    /\ timebase_index = Len(TIMEBASE_INTERVALS) \div 2
    /\ pc = "hse_wait"
    /\ BUTTON_CHANGED = [i \in Buttons |-> FALSE]
    /\ BUTTON_STATE = [i \in Buttons |-> FALSE]
    /\ BUTTON_DEBOUNCE = [i \in Buttons |-> 0]
    /\ TIMING_DELAY = 0
    /\ CAPTURE_CHANNEL_1 = [c \in Columns |-> 0]
    /\ pin = [i \in Buttons |-> TRUE]
    /\ dma_en = FALSE
    /\ ndt = 0
    /\ tcif = FALSE
    /\ adstart = FALSE
    /\ ovr = FALSE
    /\ tim15 = [arr |-> [hi |-> 0, lo |-> U16 - 1], psc |-> 0, cnt |-> 0]
    /\ tim2_arr = [hi |-> U16 - 1, lo |-> U16 - 1]
    /\ led = [LD3 |-> FALSE, LD4 |-> FALSE, LD5 |-> FALSE]
    /\ lcd = << >>
    /\ status_line = << >>
    /\ ovr_reported = FALSE
    /\ adc_in \in {0}
    /\ arg = 0
    /\ ticks = 0
    /\ plotted = {}
    /\ captured = {}
    /\ presses = [i \in Buttons |-> 0]
    /\ advances = [i \in Buttons |-> 0]
    /\ pin_budget = MaxPinEvents
    /\ startup_count = HseStartupCount
    /\ handshake \in [Handshakes -> {"pending", "never"}]

\* the flag each wait polls
WaitsFor == [hse_wait   |-> "HSERDY",
             pll_wait   |-> "PLLRDY",
             sws_wait   |-> "SWS",
             adcal_wait |-> "ADCAL",
             adrdy_wait |-> "ADRDY"]

\* the hardware brings a flag to the value the code waits for
HandshakeCompletes(h) ==
    /\ handshake[h] = "pending"
    /\ handshake' = [handshake EXCEPT ![h] = "ready"]
    /\ UNCHANGED << fg_vars, btn_vars, TIMING_DELAY, dma_vars, adc_vars,
                    tim_vars, out_vars, env_vars, hist_vars, startup_count >>

\* set_sys_clock: while hserdy == 0 { startup_count -= 1; if startup_count == 0
\* { asm::bkpt() } }
PollHse ==
    /\ pc = "hse_wait"
    /\ IF handshake["HSERDY"] = "ready"
       THEN /\ pc' = "pll_wait"
            /\ startup_count' = 0
       ELSE /\ startup_count' = startup_count - 1
            /\ pc' = IF startup_count - 1 = 0 THEN "halted" ELSE "hse_wait"
    /\ UNCHANGED << state, x_out, previous_y, timebase_index, siggen_freq_index,
                    btn_vars, TIMING_DELAY, dma_vars, adc_vars, tim_vars,
                    out_vars, env_vars, hist_vars, handshake >>

\* set_sys_clock: while pllrdy == 0 {}
PollPll ==
    /\ pc = "pll_wait"
    /\ pc' = IF handshake["PLLRDY"] = "ready" THEN "sws_wait" ELSE "pll_wait"
    /\ UNCHANGED << state, x_out, previous_y, timebase_index, siggen_freq_index,
                    btn_vars, TIMING_DELAY, dma_vars, adc_vars, tim_vars,
                    out_vars, env_vars, hist_vars, setup_vars >>

\* set_sys_clock: while sws != 0b10 {}
PollSws ==
    /\ pc = "sws_wait"
    /\ pc' = IF handshake["SWS"] = "ready" THEN "main_setup" ELSE "sws_wait"
    /\ UNCHANGED << state, x_out, previous_y, timebase_index, siggen_freq_index,
                    btn_vars, TIMING_DELAY, dma_vars, adc_vars, tim_vars,
                    out_vars, env_vars, hist_vars, setup_vars >>

\* main from the return of set_sys_clock to the start of the ADC calibration:
\* SysTick, the buttons, the display, siggen_setup (TIM2 ARR = 249)
MainSetup ==
    /\ pc = "main_setup"
    /\ tim2_arr' = ToU32(249)
    /\ pc' = "adcal_wait"
    /\ UNCHANGED << state, x_out, previous_y, timebase_index, siggen_freq_index,
                    btn_vars, TIMING_DELAY, dma_vars, adc_vars, tim15,
                    out_vars, env_vars, hist_vars, setup_vars >>

\* capture::setup: while adcal != 0 {}, then the configuration of ADC1, TIM15
\* and DMA1 channel 1 (CNDTR1 = 160)
PollAdcal ==
    /\ pc = "adcal_wait"
    /\ IF handshake["ADCAL"] = "ready"
       THEN /\ pc' = "adrdy_wait"
            /\ ndt' = SweepLen
       ELSE /\ pc' = "adcal_wait"
            /\ UNCHANGED ndt
    /\ UNCHANGED << state, x_out, previous_y, timebase_index, siggen_freq_index,
                    btn_vars, TIMING_DELAY, dma_en, tcif, CAPTURE_CHANNEL_1,
                    adc_vars, tim_vars, out_vars, env_vars, hist_vars,
                    setup_vars >>

\* capture::setup: while adrdy == 0 {}
PollAdrdy ==
    /\ pc = "adrdy_wait"
    /\ pc' = IF handshake["ADRDY"] = "ready" THEN "enter_loop" ELSE "adrdy_wait"
    /\ UNCHANGED << state, x_out, previous_y, timebase_index, siggen_freq_index,
                    btn_vars, TIMING_DELAY, dma_vars, adc_vars, tim_vars,
                    out_vars, env_vars, hist_vars, setup_vars >>

\* main from the return of capture::setup to the top of the loop: LD4 on, the
\* graticule, the initial signal generator frequency and timebase
EnterLoop ==
    /\ pc = "enter_loop"
    /\ led' = [led EXCEPT !.LD4 = TRUE]
    /\ tim2_arr' = siggen_set_freq(SIGGEN_FREQUENCIES[siggen_freq_index + 1].frequency)
    /\ tim15' = set_timebase(TIMEBASE_INTERVALS[timebase_index + 1].sample_rate)
    /\ lcd' = clear_status_line(Graticule)
    /\ status_line' = << TIMEBASE_INTERVALS[timebase_index + 1].label, "/div" >>
    /\ pc' = "match"
    /\ UNCHANGED << state, x_out, previous_y, timebase_index, siggen_freq_index,
                    btn_vars, TIMING_DELAY, dma_vars, adc_vars, ovr_reported,
                    env_vars, hist_vars, setup_vars >>

NextSetup ==
    \/ PollHse
    \/ PollPll
    \/ PollSws
    \/ MainSetup
    \/ PollAdcal
    \/ PollAdrdy
    \/ EnterLoop
    \/ \E h \in Handshakes : HandshakeCompletes(h)

\* the processor keeps executing, and a flag that is to come up does
FairSpecSetup ==
    /\ InitSetup
    /\ [][NextSetup]_vars
    /\ WF_vars(PollHse)
    /\ WF_vars(PollPll)
    /\ WF_vars(PollSws)
    /\ WF_vars(MainSetup)
    /\ WF_vars(PollAdcal)
    /\ WF_vars(PollAdrdy)
    /\ WF_vars(EnterLoop)
    /\ \A h \in Handshakes : WF_vars(HandshakeCompletes(h))


(***************************************************************************)
(* Steps of the foreground, as seen from outside                           *)
(***************************************************************************)
\* the step that calls capture::begin_sweep
BeginSweepCalled == pc = "match" /\ state = "Before" /\ pc' /= pc

\* the iteration of the loop in state During
DuringIteration == pc = "match" /\ state = "During" /\ pc' /= pc

\* the step that calls capture::finish_sweep
FinishSweepCalled == pc = "match" /\ state = "After" /\ pc' /= pc

AllPlotted == \A c \in Columns : previous_y[c] /= Unplotted

(***************************************************************************)
(* C1: the sweep state changes only Before -> During, During -> After and  *)
(* After -> Before, whatever pin changes, ticks and transfers interleave.  *)
(***************************************************************************)
SweepOrder ==
    [][state' /= state =>
          << state, state' >> \in { << "Before", "During" >>,
                                    << "During", "After" >>,
                                    << "After", "Before" >> }]_vars

\* a second sweep is under way after a timebase change
SweepOrderWitness ==
    /\ state = "During"
    /\ led.LD5
    /\ advances[0] > 0

(***************************************************************************)
(* C2, as claimed: x_out <= transferred count <= SweepLen in every state.  *)
(***************************************************************************)
ConsumedLeqTransferredAlways ==
    /\ x_out <= get_transferred_sample_count
    /\ get_transferred_sample_count <= SweepLen

(***************************************************************************)
(* C2, amended: x_out <= transferred count <= SweepLen in every state of   *)
(* During and After; the transferred count is in 0 .. SweepLen always.     *)
(***************************************************************************)
ConsumedLeqTransferredInSweep ==
    /\ get_transferred_sample_count \in 0 .. SweepLen
    /\ state \in { "During", "After" } =>
           x_out <= get_transferred_sample_count

\* the display lags the transfer in the middle of a sweep
ConsumedLeqTransferredWitness ==
    /\ state = "During"
    /\ 0 < x_out
    /\ x_out < get_transferred_sample_count

OneColumnPerStep ==
    [][/\ (x_out' /= x_out /\ state /= "Before") =>
              (DuringIteration /\ x_out' = x_out + 1)
       /\ previous_y' /= previous_y => DuringIteration
       /\ (DuringIteration /\ get_transferred_sample_count > x_out) =>
              /\ x_out' = x_out + 1
              /\ previous_y'[x_out] = PlotNew(CAPTURE_CHANNEL_1[x_out]).row
              /\ \A c \in Columns \ {x_out} : previous_y'[c] = previous_y[c]
              /\ << x_out, previous_y'[x_out] >> \in DOMAIN lcd'
              /\ \A p \in (DOMAIN lcd \cup DOMAIN lcd') :
                     p[1] /= x_out =>
                         /\ p \in DOMAIN lcd /\ p \in DOMAIN lcd'
                         /\ lcd'[p] = lcd[p]
       /\ (DuringIteration /\ get_transferred_sample_count <= x_out) =>
              UNCHANGED << x_out, previous_y, lcd, state >>
       /\ (pc = "match" /\ state = "During" /\ ~Dma1Ch1Pending) => ENABLED During
      ]_vars

\* a During iteration about to find no new sample in the middle of a sweep
OneColumnPerStepWitness ==
    /\ pc = "match"
    /\ state = "During"
    /\ 0 < x_out
    /\ x_out < SweepLen
    /\ x_out = get_transferred_sample_count

(***************************************************************************)
(* C5: begin_sweep and finish_sweep alternate, begin_sweep first: the      *)
(* transfer is disarmed, with nothing transferred, until the first         *)
(* begin_sweep; begin_sweep is only called on a disarmed transfer and      *)
(* finish_sweep only on an armed one; nothing else arms or disarms it.     *)
(***************************************************************************)
SweepsAlternate ==
    [][/\ ~adstart => (~dma_en /\ get_transferred_sample_count = 0)
       /\ BeginSweepCalled => (~dma_en /\ dma_en')
       /\ FinishSweepCalled => (dma_en /\ ~dma_en')
       /\ dma_en' /= dma_en => (BeginSweepCalled \/ FinishSweepCalled)
      ]_vars

\* begin_sweep has just been called for a sweep that follows a finished one
SweepsAlternateWitness ==
    /\ pc = "led_on"
    /\ dma_en
    /\ led.LD5


(***************************************************************************)
(* The loop keeps iterating, the timer keeps triggering conversions that   *)
(* the armed channel transfers, and a pending DMA interrupt is served.     *)
(***************************************************************************)
FairSpec ==
    /\ Init
    /\ [][Next]_vars
    /\ WF_vars(Foreground)
    /\ WF_vars(DmaTransfer)
    /\ WF_vars(Dma1Ch1)

(***************************************************************************)
(* C6: a sweep that has entered During reaches After with every column     *)
(* plotted, and then Before; while it is in During nothing disarms the     *)
(* transfer, rewinds the transfer count or moves the cursor back, whatever *)
(* timebase or frequency changes the buttons cause.                        *)
(***************************************************************************)
SweepCompletes ==
    /\ (state = "During") ~> (state = "After" /\ x_out = SweepLen /\ AllPlotted)
    /\ (state = "After") ~> (state = "Before")
    /\ [][(state = "During" /\ state' = "During") =>
             (dma_en' /\ ndt' <= ndt /\ x_out' >= x_out)]_vars

\* a sweep has completed during which the timebase was changed
SweepCompletesWitness ==
    /\ state = "After"
    /\ advances[0] > 0
    /\ ~led.LD5

(***************************************************************************)
(* C7: the changed flag is edge-triggered: BUTTON_CHANGED[i] goes from     *)
(* false to true only in a step that flips BUTTON_STATE[i], every flip of  *)
(* BUTTON_STATE[i] leaves the flag true, Tick never clears a flag, and a   *)
(* flag is cleared only by the foreground's button_reset_changed, which is *)
(* called for buttons 0 and 3 alone, so the flags of buttons 1 and 2 stay  *)
(* true for ever once set.                                                 *)
(***************************************************************************)
ChangedIsEdgeTriggered ==
    [][\A i \in Buttons :
          /\ (~BUTTON_CHANGED[i] /\ BUTTON_CHANGED'[i]) =>
                 BUTTON_STATE'[i] /= BUTTON_STATE[i]
          /\ BUTTON_STATE'[i] /= BUTTON_STATE[i] => BUTTON_CHANGED'[i]
          /\ BUTTON_STATE'[i] /= BUTTON_STATE[i] => Tick
          /\ (BUTTON_CHANGED[i] /\ ~BUTTON_CHANGED'[i]) =>
                 \/ i = 0 /\ pc = "reset0" /\ pc' = "state0"
                 \/ i = 3 /\ pc = "reset3" /\ pc' = "state3"
      ]_vars

\* the flag of button 0 consumed and not raised again while the button is
\* still held, the flag of button 1 left standing after a whole sweep
ChangedIsEdgeTriggeredWitness ==
    /\ BUTTON_CHANGED[1]
    /\ ~BUTTON_CHANGED[0]
    /\ BUTTON_STATE[0]
    /\ BUTTON_DEBOUNCE[0] = 0
    /\ advances[0] = 1
    /\ led.LD5

(***************************************************************************)
(* C8: BUTTON_DEBOUNCE[i] stays within 0 .. 100 (DebounceTicks here); a    *)
(* recognised change happens only at countdown 0 and reloads the countdown *)
(* to 100; while the countdown is positive no step changes BUTTON_STATE[i] *)
(* or raises BUTTON_CHANGED[i], whatever the pin does, and each Tick takes *)
(* the countdown down by exactly one; a Tick that finds the countdown at 0 *)
(* samples the pin again.                                                  *)
(***************************************************************************)
DebounceLockout ==
    [][\A i \in Buttons :
          /\ BUTTON_DEBOUNCE[i] \in 0 .. DebounceTicks
          /\ BUTTON_DEBOUNCE'[i] \in 0 .. DebounceTicks
          /\ BUTTON_STATE'[i] /= BUTTON_STATE[i] =>
                 (BUTTON_DEBOUNCE[i] = 0 /\ BUTTON_DEBOUNCE'[i] = DebounceTicks)
          /\ BUTTON_DEBOUNCE[i] > 0 =>
                 /\ BUTTON_STATE'[i] = BUTTON_STATE[i]
                 /\ BUTTON_CHANGED'[i] => BUTTON_CHANGED[i]
                 /\ IF Tick THEN BUTTON_DEBOUNCE'[i] = BUTTON_DEBOUNCE[i] - 1
                            ELSE BUTTON_DEBOUNCE'[i] = BUTTON_DEBOUNCE[i]
          /\ (BUTTON_DEBOUNCE[i] = 0 /\ Tick) => BUTTON_STATE'[i] = ~pin[i]
      ]_vars

\* the release of button 0 recognised once the lock-out of its press is over
DebounceLockoutWitness ==
    /\ presses[0] = 1
    /\ ~BUTTON_STATE[0]
    /\ BUTTON_DEBOUNCE[0] = DebounceTicks

(***************************************************************************)
(* C9: no confirmed press of button 0 or button 3 is lost: whenever the    *)
(* loop has finished its button handling and the flag of the button is     *)
(* clear, every press Tick has confirmed has advanced the button's index.  *)
(***************************************************************************)
NoPressLost ==
    \A b \in {0, 3} :
        (pc = "match" /\ ~BUTTON_CHANGED[b]) => advances[b] = presses[b]

(***************************************************************************)
(* C10: consuming the flag of button 0 clears it; with BUTTON_STATE[0]     *)
(* true timebase_index becomes (timebase_index + 1) mod 17 and TIM15 is    *)
(* programmed by set_timebase with the rate of the new entry, with it      *)
(* false the index and the timer stay as they are; the same holds for      *)
(* button 3 with siggen_freq_index mod 9 and siggen_set_freq; nothing else *)
(* (buttons 1 and 2 included) changes an index or a timer.                 *)
(***************************************************************************)
IndexAdvances ==
    [][/\ (pc = "reset0" /\ pc' /= pc) => ~BUTTON_CHANGED'[0]
       /\ (pc = "reset3" /\ pc' /= pc) => ~BUTTON_CHANGED'[3]
       /\ (pc = "state0" /\ pc' /= pc) =>
              IF BUTTON_STATE[0]
              THEN /\ timebase_index' = (timebase_index + 1) % 17
                   /\ tim15' = set_timebase(
                                   TIMEBASE_INTERVALS[timebase_index' + 1].sample_rate)
                   /\ status_line' = << TIMEBASE_INTERVALS[timebase_index' + 1].label,
                                        "/div" >>
              ELSE UNCHANGED << timebase_index, tim15, status_line >>
       /\ (pc = "state3" /\ pc' /= pc) =>
              IF BUTTON_STATE[3]
              THEN /\ siggen_freq_index' = (siggen_freq_index + 1) % 9
                   /\ tim2_arr' = siggen_set_freq(
                                      SIGGEN_FREQUENCIES[siggen_freq_index' + 1].frequency)
                   /\ status_line' = << "siggen freq:",
                                        SIGGEN_FREQUENCIES[siggen_freq_index' + 1].label >>
              ELSE UNCHANGED << siggen_freq_index, tim2_arr, status_line >>
       /\ (timebase_index' /= timebase_index \/ tim15' /= tim15) =>
              (pc = "state0" /\ BUTTON_STATE[0])
       /\ (siggen_freq_index' /= siggen_freq_index \/ tim2_arr' /= tim2_arr) =>
              (pc = "state3" /\ BUTTON_STATE[3])
       /\ timebase_index \in 0 .. 16
       /\ siggen_freq_index \in 0 .. 8
      ]_vars

\* both indices have wrapped from the last entry of their table to the first
IndexAdvancesWitness ==
    /\ timebase_index = 0
    /\ siggen_freq_index = 0
    /\ tim15 = set_timebase(1)
    /\ tim2_arr = siggen_set_freq(1)

(***************************************************************************)
(* C11: whatever the buttons do, timebase_index stays within 0 .. 16 and   *)
(* siggen_freq_index within 0 .. 8, so no lookup into TIMEBASE_INTERVALS   *)
(* or SIGGEN_FREQUENCIES fails its bounds check.                           *)
(***************************************************************************)
IndexInBounds ==
    /\ timebase_index \in 0 .. 16
    /\ siggen_freq_index \in 0 .. 8
    /\ Len(TIMEBASE_INTERVALS) = 17
    /\ Len(SIGGEN_FREQUENCIES) = 9
    /\ pc /= "panic"

\* the timebase entry looked up right after the index wrapped from 16 to 0
IndexInBoundsWitness ==
    /\ pc = "button3"
    /\ timebase_index = 0
    /\ status_line = << TIMEBASE_INTERVALS[1].label, "/div" >>
    /\ siggen_freq_index = 8

(***************************************************************************)
(* C12: for every r > 1097 set_timebase(r) writes the reload     *)
(* 72_000_000 div r - 1 with prescale 0, for every r in 1 .. 1097 the      *)
(* reload (72_000_000 div 2250) div r - 1 with prescale 2249, and the      *)
(* counter 0.                                                              *)
(***************************************************************************)
SetTimebaseRegimes ==
    [][(pc = "set_timebase" /\ pc' /= pc) =>
          LET reload == IF arg > 1097 THEN 72000000 \div arg - 1
                        ELSE (72000000 \div 2250) \div arg - 1
          IN  /\ pc' /= "panic"
              /\ reload >= 0
              /\ tim15' = [arr |-> ToU32(reload),
                           psc |-> IF arg > 1097 THEN 0 ELSE 2249,
                           cnt |-> 0]
      ]_vars

(***************************************************************************)
(* C13 as stated: set_timebase(1000) yields reload 71999 and prescale 0.   *)
(***************************************************************************)
SetTimebase1000AsStated ==
    (pc = "siggen_set_freq" /\ arg = 1000) =>
        (tim15.arr = ToU32(71999) /\ tim15.psc = 0)

(***************************************************************************)
(* C13, amended: 1000 is not above 1097, so set_timebase(1000) yields the  *)
(* reload (72_000_000 div 2250) div 1000 - 1 = 31 and the prescale 2249.   *)
(***************************************************************************)
SetTimebase1000 ==
    (pc = "siggen_set_freq" /\ arg = 1000) =>
        (tim15.arr = [hi |-> 0, lo |-> 31] /\ tim15.psc = 2249 /\ tim15.cnt = 0)

\* set_timebase(1000) has returned
SetTimebase1000Witness ==
    /\ pc = "siggen_set_freq"
    /\ arg = 1000
    /\ tim15.psc /= 0

(***************************************************************************)
(* C14: for every rate r in 1 .. 72_000_000 the reload set_timebase(r)     *)
(* computes is within 0 .. 65535 and the prescale fits 16 bits.            *)
(***************************************************************************)
ReloadFits16Bits ==
    (pc = "siggen_set_freq" /\ arg <= 72000000) =>
        /\ tim15.arr.hi = 0
        /\ tim15.arr.lo \in 0 .. 65535
        /\ tim15.psc \in 0 .. 65535

(***************************************************************************)
(* C17: siggen_set_freq(hz) produces a reload of at least 1 for every      *)
(* hz >= 1, those above 250_000 included.                                  *)
(***************************************************************************)
SiggenReloadAtLeastOne ==
    [][(pc = "siggen_set_freq" /\ pc' /= pc) =>
          /\ pc' = "returned"
          /\ LeqU32(ToU32(1), tim2_arr')
      ]_vars

(***************************************************************************)
(* C18: siggen_set_freq(hz) writes max(36_000_000 div 144 div hz - 1, 1):  *)
(* exactly 1 whenever 36_000_000 div 144 div hz - 1 is zero or negative,   *)
(* and 250_000 div hz - 1 otherwise.                                       *)
(***************************************************************************)
SiggenReloadClamped ==
    [][(pc = "siggen_set_freq" /\ pc' = "returned") =>
          LET reload == (36000000 \div 144) \div arg - 1
          IN  tim2_arr' = IF reload <= 0 THEN ToU32(1) ELSE ToU32(reload)
      ]_vars

RowMonotone ==
    (pc = "button0" /\ x_out = 1) =>
        \A s1 \in 0 .. adc_in : previous_y[0] <= PlotNew(s1).row

\* the rows of the two ends of the range: 0 for the sample plotted, 127 for
\* the smallest sample
RowMonotoneWitness ==
    /\ pc = "button0"
    /\ x_out = 1
    /\ adc_in = 4095
    /\ previous_y[0] = 0
    /\ PlotNew(0).row = 127

(***************************************************************************)
(* C19: SysTick decrements TIMING_DELAY by one when it is nonzero and      *)
(* leaves it at 0 otherwise, so it never underflows; delay_ms(ms) stores   *)
(* ms and has returned only after ms further SysTick invocations;          *)
(* delay_ms(0) finds the counter at 0 at once and returns without a tick;  *)
(* with SysTick firing, delay_ms always returns.                           *)
(***************************************************************************)
DelayCounter ==
    /\ [](TIMING_DELAY \in 0 .. MaxDelay)
    /\ [][Tick => TIMING_DELAY' = IF TIMING_DELAY = 0 THEN 0 ELSE TIMING_DELAY - 1]_vars
    /\ [][TIMING_DELAY' /= TIMING_DELAY => (Tick \/ pc = "delay_ms")]_vars
    /\ [][(pc = "delay_ms" /\ pc' /= pc) => TIMING_DELAY' = arg]_vars
    /\ [][(pc = "delay_wait" /\ pc' /= pc) =>
             (TIMING_DELAY = 0 /\ pc' = "delay_done" /\ ticks >= arg)]_vars
    /\ []((pc = "delay_wait" /\ arg = 0) =>
             (ticks = 0 => ENABLED (DelayPoll /\ pc' = "delay_done")))
    /\ (pc = "delay_ms") ~> (pc = "delay_done")

\* the longest delay has returned, after exactly as many ticks
DelayCounterWitness ==
    /\ pc = "delay_done"
    /\ arg = MaxDelay
    /\ ticks = MaxDelay

(***************************************************************************)
(* C20: check_adc_ovr_flag returns the overrun flag as it was at the call  *)
(* and leaves it clear; only an overrun sets the flag again, so a second   *)
(* call with no overrun in between returns false; the After step goes on   *)
(* to Before whatever was returned, and from Before the loop begins the    *)
(* next sweep.                                                             *)
(***************************************************************************)
OverrunCheck ==
    /\ [][FinishSweepCalled =>
             (ovr_reported' = ovr /\ ~ovr' /\ state' = "Before")]_vars
    /\ [][(~ovr /\ ovr') => AdcOverrun]_vars
    /\ [][(ovr /\ ~ovr') => FinishSweepCalled]_vars
    /\ [][ovr_reported' /= ovr_reported => FinishSweepCalled]_vars
    /\ []((pc = "match" /\ state = "Before" /\ ~Dma1Ch1Pending) =>
             ENABLED BeforeBeginSweep)

\* the next sweep under way after an After step that reported an overrun
OverrunCheckWitness ==
    /\ state = "During"
    /\ ovr_reported
    /\ ~ovr
    /\ led.LD5
    /\ x_out > 0

(***************************************************************************)
(* C22: the state goes from During to After exactly in the plotting step   *)
(* that takes x_out from 159 to 160 (SweepLen - 1 to SweepLen); in After   *)
(* the transferred count is 160 and every column has been plotted in this  *)
(* sweep; finish_sweep is only called on a completed transfer.             *)
(***************************************************************************)
AfterMeansComplete ==
    /\ [][(state /= "After" /\ state' = "After") =>
             /\ DuringIteration
             /\ x_out = SweepLen - 1
             /\ x_out' = SweepLen]_vars
    /\ [][(state = "During" /\ x_out = SweepLen - 1 /\ x_out' = SweepLen) =>
             state' = "After"]_vars
    /\ [](state = "After" =>
             /\ get_transferred_sample_count = SweepLen
             /\ x_out = SweepLen
             /\ plotted = Columns
             /\ AllPlotted)
    /\ [][FinishSweepCalled => get_transferred_sample_count = SweepLen]_vars

\* the second sweep has reached After
AfterMeansCompleteWitness ==
    /\ state = "After"
    /\ pc = "match"
    /\ led.LD5
    /\ plotted = Columns

(***************************************************************************)
(* C23: a loop iteration in state Before plots nothing: it calls           *)
(* begin_sweep (the channel enabled, conversions started), turns LD3 on,   *)
(* sets the state to During and x_out to 0, so that the first plotting     *)
(* step of every sweep is at column 0.                                     *)
(***************************************************************************)
BeforeArmsSweep ==
    /\ [][BeginSweepCalled =>
             /\ dma_en' /\ adstart'
             /\ pc' = "led_on"
             /\ UNCHANGED << lcd, previous_y, state >>]_vars
    /\ [][(pc = "led_on" /\ pc' /= pc) =>
             /\ led'.LD3
             /\ state' = "During"
             /\ x_out' = 0
             /\ dma_en /\ adstart
             /\ UNCHANGED << lcd, previous_y >>]_vars
    /\ [][(state = "Before" /\ state' /= "Before") =>
             (pc = "led_on" /\ state' = "During")]_vars
    /\ []((state = "During" /\ plotted = {}) => x_out = 0)
    /\ [][(plotted = {} /\ plotted' /= {}) => plotted' = {0}]_vars

\* the Before iteration of the second sweep has run: the cursor is back at 0
\* over the columns of the first sweep
BeforeArmsSweepWitness ==
    /\ state = "During"
    /\ pc = "button0"
    /\ x_out = 0
    /\ plotted = {}
    /\ AllPlotted
    /\ dma_en
    /\ led.LD3

(***************************************************************************)
(* C24: a loop iteration in state After disables the channel and rewrites  *)
(* the remaining count to 160 (the transferred count reads 0 afterwards),  *)
(* checks the overrun flag once, toggles LD5 once and sets the state to    *)
(* Before; LD5 changes in no other step.                                   *)
(***************************************************************************)
AfterCleansUp ==
    /\ [][FinishSweepCalled =>
             /\ ~dma_en'
             /\ ndt' = SweepLen
             /\ get_transferred_sample_count' = 0
             /\ ovr_reported' = ovr
             /\ led'.LD5 = ~led.LD5
             /\ state' = "Before"
             /\ pc' = "button0"]_vars
    /\ [][led'.LD5 /= led.LD5 => FinishSweepCalled]_vars
    /\ [][(state = "After" /\ state' /= "After") => FinishSweepCalled]_vars

\* two sweeps completed (LD5 toggled twice), the second one with an overrun
\* that the After iteration found and cleared
AfterCleansUpWitness ==
    /\ state = "Before"
    /\ pc = "button0"
    /\ x_out = SweepLen
    /\ ~led.LD5
    /\ ~dma_en
    /\ get_transferred_sample_count = 0
    /\ ovr_reported
    /\ ~ovr

(***************************************************************************)
(* C25: one SysTick does, for each button on its own: with a debounce      *)
(* counter above 0, only the counter goes down by one; otherwise the       *)
(* inverted pin level is compared with the recorded state, and a           *)
(* difference sets the state to it, raises the changed flag and reloads    *)
(* the counter with 100 (DebounceTicks), while no difference changes       *)
(* nothing. The pin of one button has no effect on another button.         *)
(***************************************************************************)
TickPerButton ==
    [][Tick =>
        \A i \in Buttons :
            IF BUTTON_DEBOUNCE[i] > 0
            THEN /\ BUTTON_DEBOUNCE'[i] = BUTTON_DEBOUNCE[i] - 1
                 /\ BUTTON_STATE'[i] = BUTTON_STATE[i]
                 /\ BUTTON_CHANGED'[i] = BUTTON_CHANGED[i]
            ELSE IF (~pin[i]) /= BUTTON_STATE[i]
            THEN /\ BUTTON_STATE'[i] = ~pin[i]
                 /\ BUTTON_CHANGED'[i]
                 /\ BUTTON_DEBOUNCE'[i] = DebounceTicks
            ELSE /\ BUTTON_DEBOUNCE'[i] = 0
                 /\ BUTTON_STATE'[i] = BUTTON_STATE[i]
                 /\ BUTTON_CHANGED'[i] = BUTTON_CHANGED[i]]_vars

\* button 0 was recognised one tick before button 1: button 0 is counting
\* down, button 1 has just been reloaded, the other two are idle
TickPerButtonWitness ==
    /\ BUTTON_STATE[0] /\ BUTTON_DEBOUNCE[0] = DebounceTicks - 1
    /\ BUTTON_STATE[1] /\ BUTTON_DEBOUNCE[1] = DebounceTicks
    /\ BUTTON_CHANGED[1]
    /\ ~BUTTON_STATE[2] /\ BUTTON_DEBOUNCE[2] = 0 /\ ~BUTTON_CHANGED[2]
    /\ ~BUTTON_STATE[3] /\ BUTTON_DEBOUNCE[3] = 0 /\ ~BUTTON_CHANGED[3]

(***************************************************************************)
(* C26: every shared variable has one writer. The foreground never writes  *)
(* BUTTON_STATE or BUTTON_DEBOUNCE and only clears BUTTON_CHANGED[0] and   *)
(* BUTTON_CHANGED[3]; the SysTick handler is the only writer of            *)
(* BUTTON_STATE and BUTTON_DEBOUNCE and the only one to set a changed      *)
(* flag, and it never writes the sweep state, x_out, previous_y or the     *)
(* two table indices.                                                      *)
(***************************************************************************)
SingleWriter ==
    /\ [][(pc' /= pc) =>
             /\ Foreground
             /\ UNCHANGED << BUTTON_STATE, BUTTON_DEBOUNCE >>
             /\ \A i \in Buttons :
                    BUTTON_CHANGED'[i] /= BUTTON_CHANGED[i] =>
                        /\ ~BUTTON_CHANGED'[i]
                        /\ \/ i = 0 /\ pc = "reset0"
                           \/ i = 3 /\ pc = "reset3"]_vars
    /\ [][(BUTTON_STATE' /= BUTTON_STATE \/ BUTTON_DEBOUNCE' /= BUTTON_DEBOUNCE)
             => Tick]_vars
    /\ [][(\E i \in Buttons : ~BUTTON_CHANGED[i] /\ BUTTON_CHANGED'[i])
             => Tick]_vars
    /\ [][(\E i \in Buttons : BUTTON_CHANGED[i] /\ ~BUTTON_CHANGED'[i])
             => (pc' /= pc)]_vars
    /\ [][Tick => UNCHANGED << state, x_out, previous_y, timebase_index,
                               siggen_freq_index, pc >>]_vars

\* the foreground has cleared the flag of button 0 while the flag the handler
\* raised for button 1 stands
SingleWriterWitness ==
    /\ pc = "state0"
    /\ BUTTON_STATE[0]
    /\ ~BUTTON_CHANGED[0]
    /\ BUTTON_STATE[1]
    /\ BUTTON_CHANGED[1]

(***************************************************************************)
(* C27: the button events are checked exactly once per loop iteration in   *)
(* every sweep state: each arm of the match is followed by the check of    *)
(* button 0, then the check of button 3, then the next match. Applying a   *)
(* timebase or frequency change leaves the sweep state, x_out,             *)
(* previous_y, the sample buffer and the transferred count unchanged.      *)
(***************************************************************************)
ButtonsOncePerIteration ==
    /\ [][(pc' /= pc) =>
             \/ pc = "match"   /\ state = "Before" /\ pc' = "led_on"
             \/ pc = "match"   /\ state \in {"During", "After"} /\ pc' = "button0"
             \/ pc = "led_on"  /\ pc' = "button0"
             \/ pc = "button0" /\ BUTTON_CHANGED[0]  /\ pc' = "reset0"
             \/ pc = "button0" /\ ~BUTTON_CHANGED[0] /\ pc' = "button3"
             \/ pc = "reset0"  /\ pc' = "state0"
             \/ pc = "state0"  /\ pc' = "button3"
             \/ pc = "button3" /\ BUTTON_CHANGED[3]  /\ pc' = "reset3"
             \/ pc = "button3" /\ ~BUTTON_CHANGED[3] /\ pc' = "match"
             \/ pc = "reset3"  /\ pc' = "state3"
             \/ pc = "state3"  /\ pc' = "match"]_vars
    /\ [][(pc \in {"button0", "reset0", "state0", "button3", "reset3", "state3"}
            /\ pc' /= pc) =>
             UNCHANGED << state, x_out, previous_y, CAPTURE_CHANNEL_1, ndt,
                          dma_en, plotted >>]_vars
    /\ [][(timebase_index' /= timebase_index) =>
             (pc = "state0" /\ BUTTON_STATE[0] /\ siggen_freq_index' = siggen_freq_index
              /\ tim15' = set_timebase(TIMEBASE_INTERVALS[timebase_index' + 1].sample_rate))]_vars
    /\ [][(siggen_freq_index' /= siggen_freq_index) =>
             (pc = "state3" /\ BUTTON_STATE[3] /\ timebase_index' = timebase_index
              /\ tim2_arr' = siggen_set_freq(SIGGEN_FREQUENCIES[siggen_freq_index' + 1].frequency))]_vars

\* a timebase change applied in the middle of a sweep
ButtonsOncePerIterationWitness ==
    /\ pc = "button3"
    /\ state = "During"
    /\ x_out = 1
    /\ get_transferred_sample_count = 2
    /\ timebase_index = (Len(TIMEBASE_INTERVALS) \div 2) + 1
    /\ advances[0] = 1
    /\ tim15 = set_timebase(TIMEBASE_INTERVALS[timebase_index + 1].sample_rate)
    /\ status_line = << TIMEBASE_INTERVALS[timebase_index + 1].label, "/div" >>

(***************************************************************************)
(* C28: the DMA transfer-complete handler only turns LD3 off and clears    *)
(* the transfer-complete flag: wherever it falls among the steps of the    *)
(* loop and of the SysTick handler, it leaves the button state, changed    *)
(* flags and debounce countdowns, the delay counter, the sweep state,      *)
(* x_out, previous_y, the sample buffer and the transferred count          *)
(* unchanged.                                                              *)
(***************************************************************************)
DmaHandlerFrame ==
    /\ [][(tcif /\ ~tcif') =>
             /\ ~led'.LD3
             /\ led'.LD4 = led.LD4
             /\ led'.LD5 = led.LD5
             /\ UNCHANGED << BUTTON_STATE, BUTTON_CHANGED, BUTTON_DEBOUNCE,
                             TIMING_DELAY, state, x_out, previous_y, pc,
                             timebase_index, siggen_freq_index,
                             CAPTURE_CHANNEL_1, ndt, dma_en, lcd >>
             /\ get_transferred_sample_count' = get_transferred_sample_count]_vars
    /\ [][(led.LD3 /\ ~led'.LD3) => (tcif /\ ~tcif')]_vars

\* the handler has run in the second sweep, between two steps of the loop's
\* button checks, with a debounce countdown running and columns still to plot
DmaHandlerFrameWitness ==
    /\ ~tcif
    /\ ~led.LD3
    /\ led.LD5
    /\ state = "During"
    /\ pc = "state0"
    /\ x_out = 1
    /\ get_transferred_sample_count = SweepLen
    /\ BUTTON_DEBOUNCE[0] = DebounceTicks
    /\ dma_en

(***************************************************************************)
(* C30: every entry of previous_y is the sentinel 255 or a row in 0..127;  *)
(* while the state is During every entry below x_out was written in this   *)
(* sweep and is not the sentinel; once the first sweep has completed no    *)
(* entry is the sentinel again.                                            *)
(***************************************************************************)
PreviousYRange ==
    /\ [](\A c \in Columns : previous_y[c] = Unplotted \/ previous_y[c] \in 0 .. 127)
    /\ [](state = "During" =>
             \A c \in Columns : c < x_out => (c \in plotted /\ previous_y[c] /= Unplotted))
    /\ [](state = "After" => AllPlotted)
    /\ []((led.LD5 \/ state = "After") => AllPlotted)
    /\ [][AllPlotted => AllPlotted']_vars
    /\ [][\A c \in Columns :
             previous_y'[c] /= previous_y[c] =>
                (DuringIteration /\ c = x_out /\ previous_y'[c] \in 0 .. 127)]_vars

\* the second sweep under way over the rows of the first, full-scale samples
\* recorded as row 0
PreviousYRangeWitness ==
    /\ state = "During"
    /\ led.LD5
    /\ x_out = 1
    /\ plotted = {0}
    /\ AllPlotted
    /\ adc_in = 4095
    /\ \A c \in Columns : previous_y[c] = 0

(***************************************************************************)
(* C29: the erase of the plotting step at column x draws nothing when      *)
(* previous_y[x] is the sentinel 255; otherwise it redraws exactly the     *)
(* pixel (x, previous_y[x]): in Green when x mod 32 = 0 and                *)
(* previous_y[x] mod 32 = 0, in Black otherwise. No other column is        *)
(* touched. (The new sample is then plotted over the result.)              *)
(***************************************************************************)
EraseOnePixel ==
    [][(DuringIteration /\ x_out' /= x_out) =>
          LET x == x_out
              prev == previous_y[x]
              new == previous_y'[x]
              shown == (DOMAIN lcd) \cup (DOMAIN lcd')
          IN  /\ \A p \in shown : p[1] /= x => Pixel(lcd', p) = Pixel(lcd, p)
              /\ \A p \in shown :
                    (p[1] = x /\ p[2] /= new /\ (prev = Unplotted \/ p[2] /= prev))
                        => Pixel(lcd', p) = Pixel(lcd, p)
              /\ (prev /= Unplotted /\ prev /= new) =>
                    Pixel(lcd', << x, prev >>) =
                        IF x % 32 = 0 /\ prev % 32 = 0 THEN Green ELSE Black
              /\ Pixel(lcd', << x, new >>) \in {White, Red}
      ]_vars

\* the second sweep, over a full-scale first one, has erased row 0 of columns
\* 0 and 1: Green on the graticule position (0, 0), Black at (1, 0)
EraseOnePixelWitness ==
    /\ state = "During"
    /\ x_out = 2
    /\ previous_y = [c \in Columns |-> IF c < 2 THEN 127 ELSE 0]
    /\ Pixel(lcd, << 0, 0 >>) = Green
    /\ Pixel(lcd, << 1, 0 >>) = Black
    /\ Pixel(lcd, << 2, 0 >>) = Red
    /\ Pixel(lcd, << 0, 127 >>) = White

(***************************************************************************)
(* C21: a readiness handshake that never completes is fatal within a       *)
(* bounded spin: when the flag a wait of the start-up code polls (ADCAL,   *)
(* ADRDY, HSERDY, PLLRDY, SWS) never reaches the awaited value, the wait   *)
(* ends after a bounded number of polls in a halted state, and the main    *)
(* loop is never entered.                                                  *)
(***************************************************************************)
HandshakeTimeout ==
    /\ (\E w \in DOMAIN WaitsFor : pc = w /\ handshake[WaitsFor[w]] = "never")
          ~> (pc = "halted")
    /\ []((\E h \in Handshakes : handshake[h] = "never") => pc /= "match")

(***************************************************************************)
(* C31: the foreground only reads samples that have been captured:         *)
(* whenever it reads channel_1_data()[x_out], x_out < 160 (SweepLen) and   *)
(* x_out is below the number of samples the DMA has transferred in the     *)
(* current sweep, so the slot read was written in this sweep, and neither  *)
(* the buffer nor previous_y is indexed out of bounds.                     *)
(***************************************************************************)
ReadsOnlyCaptured ==
    /\ [][(DuringIteration /\ x_out' /= x_out) =>
             /\ x_out < SweepLen
             /\ x_out < get_transferred_sample_count
             /\ x_out \in captured
             /\ x_out \in DOMAIN CAPTURE_CHANNEL_1
             /\ x_out \in DOMAIN previous_y]_vars
    /\ [][(CAPTURE_CHANNEL_1' /= CAPTURE_CHANNEL_1) =>
             (captured' = captured \cup {SweepLen - ndt} /\ ndt' = ndt - 1)]_vars
    /\ [](state = "During" =>
             captured = {c \in Columns : c < get_transferred_sample_count})

\* the second sweep: two slots rewritten and plotted, the third still holding
\* the sample of the first sweep
ReadsOnlyCapturedWitness ==
    /\ state = "During"
    /\ led.LD5
    /\ x_out = 2
    /\ captured = {0, 1}
    /\ plotted = {0, 1}
    /\ get_transferred_sample_count = 2

(***************************************************************************)
(* C32: LD3 marks a capture in progress: once the DMA transfer-complete    *)
(* handler of a sweep has run, LD3 is off in every state until the next    *)
(* call of begin_sweep, however the handler and SysTick fall among the     *)
(* steps of the Before arm, which calls begin_sweep before led_on(LD3).    *)
(***************************************************************************)
Ld3OffAfterHandler ==
    [](\* all the slots written since begin_sweep, the interrupt served
       (captured = Columns /\ ~tcif) => ~led.LD3)

(***************************************************************************)
(* C33: an index advances at most once per confirmed press: in every       *)
(* execution, however the SysTick invocations fall among the foreground's  *)
(* get_changed / reset_changed / get_state steps, the advances of          *)
(* timebase_index never outnumber the false->true transitions of button 0  *)
(* that SysTick recognised (likewise siggen_freq_index and button 3).      *)
(***************************************************************************)
AdvancesLeqPresses ==
    [](\A i \in {0, 3} : advances[i] <= presses[i])

(***************************************************************************)
(* C34: the timer settings match the current selection: starting from the  *)
(* indices 8 and 6, at every loop-iteration boundary the reload and the    *)
(* prescale of the capture timer are those set_timebase computes for       *)
(* TIMEBASE_INTERVALS[timebase_index].sample_rate, and the reload of the   *)
(* generator timer is the one siggen_set_freq computes for                 *)
(* SIGGEN_FREQUENCIES[siggen_freq_index].frequency.                        *)
(***************************************************************************)
TimersMatchSelection ==
    /\ (timebase_index = 8 /\ siggen_freq_index = 6)
    /\ [](pc = "match" =>
             /\ InBounds(timebase_index, TIMEBASE_INTERVALS)
             /\ InBounds(siggen_freq_index, SIGGEN_FREQUENCIES)
             /\ tim15.arr = set_timebase(TIMEBASE_INTERVALS[timebase_index + 1].sample_rate).arr
             /\ tim15.psc = set_timebase(TIMEBASE_INTERVALS[timebase_index + 1].sample_rate).psc
             /\ tim2_arr = siggen_set_freq(SIGGEN_FREQUENCIES[siggen_freq_index + 1].frequency))

\* both selections changed once: 2 ms/div (16000 samples per second, reload
\* 4499 unprescaled) and 3.3 kHz (reload 74)
TimersMatchSelectionWitness ==
    /\ pc = "match"
    /\ timebase_index = 9
    /\ siggen_freq_index = 7
    /\ tim15.arr = ToU32(4499)
    /\ tim15.psc = 0
    /\ tim2_arr = ToU32(74)

(***************************************************************************)
(* C35: erasing a trace pixel restores the graticule: after any number of  *)
(* sweeps every graticule pixel painted at startup (columns 32, 64, 96,    *)
(* 128 at rows 127-32, 127-64, 127-96, in Red) that the trace does not     *)
(* cover shows the colour it was painted with, and the erase leaves no     *)
(* grid-coloured pixel where no graticule pixel was painted (every lit     *)
(* pixel the trace does not cover is a graticule pixel).                   *)
(***************************************************************************)
GraticuleRestored ==
    [](/\ \A p \in DOMAIN Graticule :
             previous_y[p[1]] /= p[2] => Pixel(lcd, p) = Graticule[p]
       /\ \A p \in DOMAIN lcd :
             previous_y[p[1]] /= p[2] => p \in DOMAIN Graticule)

====
